---- MODULE Spec2Model ----
(***************************************************************************)
(* Verification model of the reflow-oven controller software: the serial   *)
(* protocol client of the V3 Pro controller (devices/V3_Pro.py), the       *)
(* device state machine with its sampling loop (Device.py) and the lock    *)
(* around the wire.                                                        *)
(*                                                                         *)
(* Python values are modelled as tagged records so that None, the integer  *)
(* 0 and strings stay distinct and Python's truthiness can be computed.    *)
(* A response of the controller is abstracted to its outcome and to the    *)
(* value its second line carries; the controller is a flat store of the    *)
(* 19 settings, a heating flag and an oven temperature.                    *)
(***************************************************************************)
EXTENDS Integers, Sequences, FiniteSets, TLC

VARIABLES
    ctrl,       \* the controller: [settings, heating, temp]
    link,       \* the serial line's pending disturbance: [skip, count, kind, used]
    conn,       \* V3ProSerialConnection: [shadow, initial]
    file,       \* storage/v3_pro_initial_settings.json
    last,       \* the client operation that ran last, with its wire log
    hist,       \* history: what the controller held when the snapshot was taken
    dev,        \* Device fields
    thr,        \* the sampling threads (_run), each with its locals
    now,        \* time.time(), in seconds
    wire,       \* the lock _dev_access and the threads inside _write_command
    py,         \* the interpreter: whether equal values are one object
    pc,         \* where the caller stands in V3Pro.start_device
    usb,        \* the serial ports, USBDeviceDaemon and DeviceList
    profiles    \* Profiles: the profile list

vars == <<ctrl, link, conn, file, last, hist, dev, thr, now, wire, py, pc, usb, profiles>>

(***************************************************************************)
(* Python values                                                           *)
(***************************************************************************)
None == [k |-> "none", n |-> 0, s |-> ""]

I(x) == [k |-> "int", n |-> x, s |-> ""]

S(x) == [k |-> "str", n |-> 0, s |-> x]

\* bool(v) as the getters' "if self._x:" computes it
Truthy(v) == (v.k = "int" /\ v.n # 0) \/ (v.k = "str" /\ v.s # "")

\* "a is b": None is a singleton; whether two equal ints or strings are the
\* same object depends on the interpreter (small-int cache, interning): the
\* model runs under both answers (py.interned).
Is(a, b, interned) == a = b /\ (a = None \/ interned)

\* str.upper() on the strings the model uses
Upper(x) ==
    CASE x = "on" -> "ON"
      [] x = "off" -> "OFF"
      [] OTHER -> x

(***************************************************************************)
(* The 19 settings                                                         *)
(***************************************************************************)
SettingNames ==
    << "memory_slot", "temp_unit", "trace", "temp_trace", "debug",
       "background_light",
       "preheat_temp", "preheat_time", "preheat_pwr",
       "soak_temp", "soak_time", "soak_pwr",
       "reflow_temp", "reflow_time", "reflow_pwr",
       "dwell_temp", "dwell_time", "dwell_pwr",
       "auto_extend" >>

Settings == { SettingNames[i] : i \in 1..Len(SettingNames) }

TempSettings == {"preheat_temp", "soak_temp", "reflow_temp", "dwell_temp"}

TimeSettings == {"preheat_time", "soak_time", "reflow_time", "dwell_time"}

PwrSettings == {"preheat_pwr", "soak_pwr", "reflow_pwr", "dwell_pwr"}

FlagSettings == {"trace", "temp_trace", "debug", "auto_extend"}

PhaseSettings == TempSettings \cup TimeSettings \cup PwrSettings

AllNone == [s \in Settings |-> None]

number_of_trials == 5

(***************************************************************************)
(* Errors.  A ConnectionError carries the operation its message names.     *)
(***************************************************************************)
NoErr == [type |-> "none", verb |-> "", subject |-> ""]

ConnErr(verb, subject) == [type |-> "ConnectionError", verb |-> verb, subject |-> subject]

IndexErr == [type |-> "IndexError", verb |-> "", subject |-> ""]

TypeErr == [type |-> "TypeError", verb |-> "", subject |-> ""]

FileNotFoundErr == [type |-> "FileNotFoundError", verb |-> "", subject |-> ""]

\* the setting the message of a getter's ConnectionError names
ReadMsgSubject(s) ==
    IF s = "debug" THEN "temp_trace" ELSE s

\* whether the retry loop of the operation on s also catches IndexError
CatchesIndexError(s) ==
    s \in PhaseSettings \cup {"temp_trace", "auto_extend", "temperature"}

(***************************************************************************)
(* The serial line.  The next `skip` exchanges are undisturbed, the        *)
(* `count` exchanges after them end as `kind` says:                        *)
(*   marker   : the response holds "not found" / "# Command >"             *)
(*   short    : the response has fewer than two lines                      *)
(*   mismatch : the second line carries another value than asked for       *)
(* A behaviour of the model sees one such burst (used).                    *)
(***************************************************************************)
FaultKinds == {"marker", "short", "mismatch"}

Quiet == [skip |-> 0, count |-> 0, kind |-> "marker", used |-> FALSE]

Outcome(l) == IF l.skip = 0 /\ l.count > 0 THEN l.kind ELSE "ok"

\* the line after one more exchange; a burst that is over leaves no trace
Consume(l) ==
    IF l.skip > 0 THEN [l EXCEPT !.skip = l.skip - 1]
    ELSE IF l.count > 1 THEN [l EXCEPT !.count = l.count - 1]
    ELSE IF l.count = 1 THEN [l EXCEPT !.count = 0, !.kind = "marker"]
    ELSE l

Garbage == I(-1)

(***************************************************************************)
(* The client as a machine: the operators below take and return a record   *)
(*   [settings, heating, temp, link, shadow, log, err, ret]                *)
(* settings/heating/temp are the controller's, shadow the client's cache,  *)
(* log the commands written so far by the running operation, err the       *)
(* exception that is propagating (NoErr: none), ret the returned value.    *)
(* Each Python method is a chain of operators, one per stretch of its      *)
(* code between two calls.                                                 *)
(***************************************************************************)
\* a command, and in the log its outcome
Cmd(c, s, v) == [c |-> c, s |-> s, v |-> v, st |-> "ok"]

\* what the controller does with a command it understood
Effect(m, cmd) ==
    CASE cmd.c = "set" -> [m EXCEPT !.settings[cmd.s] = cmd.v]
      [] cmd.c = "doStart" -> [m EXCEPT !.heating = TRUE]
      [] cmd.c = "doStop" -> [m EXCEPT !.heating = FALSE]
      [] OTHER -> m

\* the value on the second line of its response
Response(m, cmd) ==
    CASE cmd.c = "get" -> m.settings[cmd.s]
      [] cmd.c = "set" -> cmd.v
      [] cmd.c = "doStart" -> S("Start")
      [] cmd.c = "doStop" -> S("Stop")
      [] OTHER -> I(m.temp)

Logged(m, cmd, o) ==
    [m EXCEPT !.link = Consume(@), !.log = Append(@, [cmd EXCEPT !.st = o])]

Exchange(m, cmd, o) ==
    [m |-> IF o = "ok" THEN Effect(Logged(m, cmd, o), cmd) ELSE Logged(m, cmd, o),
     st |-> o,
     val |-> IF o = "ok" THEN Response(m, cmd) ELSE Garbage]

\* _write_command, run to its end by one thread: the command is written, the
\* response read to its blank line.  Yields the machine after the exchange,
\* the outcome and the value on the response's second line.
WriteCommand(m, cmd) == Exchange(m, cmd, Outcome(m.link))

Raise(m, e) == [m EXCEPT !.err = e, !.ret = None]

Return(m, v) == [m EXCEPT !.ret = v]

\* an except clause has caught the error
Caught(m) == [m EXCEPT !.err = NoErr]

\* the machine at the entry of a method
Entry(m) == [m EXCEPT !.err = NoErr, !.ret = None]

\* the range a getter accepts for the value it parsed
ValidRead(s, v) ==
    CASE s = "memory_slot" -> v.k = "int" /\ 0 <= v.n /\ v.n <= 4
      [] s = "temp_unit" -> v \in {S("C"), S("F")}
      [] s \in FlagSettings -> v \in {S("OFF"), S("ON")}
      [] s = "background_light" -> v.k = "int" /\ 0 <= v.n /\ v.n <= 10
      [] s \in TimeSettings -> v.k = "int" /\ 0 <= v.n /\ v.n <= 65534
      [] s \in PwrSettings -> v.k = "int" /\ 0 <= v.n /\ v.n <= 100
      [] OTHER -> v.k = "int"

\* the loop of a getter that talks to the controller itself: memory_slot,
\* temp_unit, trace, temp_trace, debug, background_light, auto_extend
RECURSIVE ReadLoop(_, _, _)
ReadStep(r, s, i) ==
    IF r.st = "ok" /\ ValidRead(s, r.val)
       THEN Return([r.m EXCEPT !.shadow[s] = r.val], r.val)
    ELSE IF r.st = "short" /\ ~CatchesIndexError(s)
       THEN Raise(r.m, IndexErr)
    ELSE IF i = number_of_trials - 1
       THEN Raise(r.m, ConnErr("read", ReadMsgSubject(s)))
    ELSE ReadLoop(r.m, s, i + 1)

ReadLoop(m, s, i) ==
    IF i >= number_of_trials THEN Return(m, None)
    ELSE ReadStep(WriteCommand(m, Cmd("get", s, None)), s, i)

\* the temp_unit property (getter)
GetTempUnit(m) ==
    IF Truthy(m.shadow["temp_unit"]) THEN Return(m, m.shadow["temp_unit"])
    ELSE ReadLoop(m, "temp_unit", 0)

\* _get_solder_temp: the unit is read (through its getter) inside the try of
\* the loop, so an error of that read is caught like a failed exchange
RECURSIVE GetSolderTemp(_, _, _)
SolderTempAgain(m, s, i) ==
    IF i = number_of_trials - 1 THEN Raise(m, ConnErr("read", s))
    ELSE GetSolderTemp(m, s, i + 1)

\* ... and self.temp_unit == 'F' (u: the machine after the getter)
SolderTempUnitF(u, t, s, i) ==
    IF u.err # NoErr THEN SolderTempAgain(Caught(u), s, i)
    ELSE IF u.ret = S("F") THEN Return(u, t)
    ELSE SolderTempAgain(u, s, i)

\* elif 32 <= temp <= 490 and ...
SolderTempElif(m, t, s, i) ==
    IF 32 <= t.n /\ t.n <= 490 THEN SolderTempUnitF(GetTempUnit(m), t, s, i)
    ELSE SolderTempAgain(m, s, i)

\* ... and self.temp_unit == 'C'
SolderTempUnitC(u, t, s, i) ==
    IF u.err # NoErr THEN SolderTempAgain(Caught(u), s, i)
    ELSE IF u.ret = S("C") THEN Return(u, t)
    ELSE SolderTempElif(u, t, s, i)

\* if 0 <= temp <= 254 and ...
SolderTempParsed(r, s, i) ==
    IF r.st # "ok" \/ r.val.k # "int" THEN SolderTempAgain(r.m, s, i)
    ELSE IF 0 <= r.val.n /\ r.val.n <= 254
       THEN SolderTempUnitC(GetTempUnit(r.m), r.val, s, i)
    ELSE SolderTempElif(r.m, r.val, s, i)

GetSolderTemp(m, s, i) ==
    IF i >= number_of_trials THEN Return(m, None)
    ELSE SolderTempParsed(WriteCommand(m, Cmd("get", s, None)), s, i)

\* _get_solder_time and _get_solder_pwr
RECURSIVE GetSolderTimePwr(_, _, _)
SolderTimePwrParsed(r, s, i) ==
    IF r.st = "ok" /\ ValidRead(s, r.val) THEN Return(r.m, r.val)
    ELSE IF i = number_of_trials - 1 THEN Raise(r.m, ConnErr("read", s))
    ELSE GetSolderTimePwr(r.m, s, i + 1)

GetSolderTimePwr(m, s, i) ==
    IF i >= number_of_trials THEN Return(m, None)
    ELSE SolderTimePwrParsed(WriteCommand(m, Cmd("get", s, None)), s, i)

\* the field a phase getter returns after it has filled the cache
ReturnedField(s) == IF s = "reflow_time" THEN "preheat_time" ELSE s

\* self._x = self._get_solder_...(phase); return self._x
PhaseFilled(g, s) ==
    IF g.err # NoErr THEN g
    ELSE Return([g EXCEPT !.shadow[s] = g.ret],
                IF ReturnedField(s) = s THEN g.ret ELSE g.shadow[ReturnedField(s)])

\* whether the getter of s answers from the cache
CacheHit(v) == Truthy(v)

GetterOn(m, s) ==
    IF CacheHit(m.shadow[s]) THEN Return(m, m.shadow[s])
    ELSE IF s \in TempSettings THEN PhaseFilled(GetSolderTemp(m, s, 0), s)
    ELSE IF s \in PhaseSettings THEN PhaseFilled(GetSolderTimePwr(m, s, 0), s)
    ELSE ReadLoop(m, s, 0)

\* the property getters, by setting
Getter(m, s) == GetterOn(Entry(m), s)

(***************************************************************************)
(* Setters                                                                 *)
(***************************************************************************)
\* the loop of a setter that talks to the controller itself
RECURSIVE WriteLoop(_, _, _, _)
WriteStep(r, s, value, i) ==
    IF r.st = "ok" /\ r.val = value THEN [r.m EXCEPT !.shadow[s] = r.val]
    ELSE IF r.st = "short" /\ ~CatchesIndexError(s) THEN Raise(r.m, IndexErr)
    ELSE IF i = number_of_trials - 1
       THEN Raise(r.m, ConnErr("write", s))
    ELSE WriteLoop(r.m, s, value, i + 1)

WriteLoop(m, s, value, i) ==
    IF i >= number_of_trials THEN m
    ELSE WriteStep(WriteCommand(m, Cmd("set", s, value)), s, value, i)

\* a setter that would keep the cached value while it writes
KeepsCached(m, s) == m

\* "if value is not self._x: self._x = None; <loop>"
Unset(m, s) == [m EXCEPT !.shadow[s] = None]

\* memory_slot.setter and background_light.setter: the value is clamped
Clamp(s, v) ==
    IF s = "memory_slot" THEN (IF v.n > 4 THEN I(4) ELSE v)
    ELSE (IF v.n > 10 THEN I(10) ELSE v)

SetClamped(m, s, v, interned) ==
    IF v.k # "int" THEN Raise(m, TypeErr)
    ELSE IF Is(Clamp(s, v), m.shadow[s], interned) THEN m
    ELSE WriteLoop(Unset(m, s), s, Clamp(s, v), 0)

\* temp_unit.setter: 'tempUnit ' + value raises TypeError unless value is a str
SetTempUnit(m, v, interned) ==
    IF Is(v, m.shadow["temp_unit"], interned) THEN m
    ELSE IF v.k # "str" THEN Raise(Unset(m, "temp_unit"), TypeErr)
    ELSE WriteLoop(Unset(m, "temp_unit"), "temp_unit", v, 0)

\* the normalisation at the head of the trace, temp_trace, debug and
\* auto_extend setters
NormFlag(v) ==
    CASE v = I(0) -> S("OFF")
      [] v = I(1) -> S("ON")
      [] v.k = "str" -> S(Upper(v.s))
      [] OTHER -> v

SetFlagNormed(m, s, value, interned) ==
    IF Is(value, m.shadow[s], interned) THEN m
    ELSE IF value \in {S("ON"), S("OFF")} THEN WriteLoop(Unset(m, s), s, value, 0)
    ELSE Unset(m, s)

SetFlag(m, s, v, interned) == SetFlagNormed(m, s, NormFlag(v), interned)

\* the loop of _set_solder_temp, _set_solder_time and _set_solder_pwr
RECURSIVE SetSolderLoop(_, _, _, _)
SetSolderStep(r, s, value, i) ==
    IF r.st = "ok" /\ r.val = value THEN r.m
    ELSE IF i = number_of_trials - 1 THEN Raise(r.m, ConnErr("write", s))
    ELSE SetSolderLoop(r.m, s, value, i + 1)

SetSolderLoop(m, s, value, i) ==
    IF i >= number_of_trials THEN m
    ELSE SetSolderStep(WriteCommand(m, Cmd("set", s, value)), s, value, i)

\* a range test that would let every value pass in unit C
AcceptsAll(value) == FALSE

\* the range test at the head of _set_solder_temp:
\*   ((value < 0 or value > 254) and self.temp_unit == 'C') or
\*   ((value < 32 or value > 490) and self.temp_unit == 'F')
OutsideC(value) == value.n < 0 \/ value.n > 254

OutsideF(value) == value.n < 32 \/ value.n > 490

\* ... and self.temp_unit == 'F': rejected (return) or the loop
SetSolderTempUnitF(u, s, value) ==
    IF u.err # NoErr THEN u
    ELSE IF u.ret = S("F") THEN Return(u, None)
    ELSE SetSolderLoop(Return(u, None), s, value, 0)

SetSolderTempOr(m, s, value) ==
    IF OutsideF(value) THEN SetSolderTempUnitF(GetTempUnit(m), s, value)
    ELSE SetSolderLoop(m, s, value, 0)

\* ... and self.temp_unit == 'C'
SetSolderTempUnitC(u, s, value) ==
    IF u.err # NoErr THEN u
    ELSE IF u.ret = S("C") THEN Return(u, None)
    ELSE SetSolderTempOr(Return(u, None), s, value)

SetSolderTemp(m, s, value) ==
    IF value.k # "int" THEN Raise(m, TypeErr)
    ELSE IF OutsideC(value) THEN SetSolderTempUnitC(GetTempUnit(m), s, value)
    ELSE SetSolderTempOr(m, s, value)

SetSolderTimePwr(m, s, value) ==
    IF value.k # "int" THEN Raise(m, TypeErr)
    ELSE IF value.n < 0 \/ value.n > (IF s \in TimeSettings THEN 65534 ELSE 100) THEN m
    ELSE SetSolderLoop(m, s, value, 0)

\* self._x = value, after _set_solder_... has returned
PhaseWritten(w, s, v) ==
    IF w.err # NoErr THEN w ELSE [w EXCEPT !.shadow[s] = v]

\* the twelve phase property setters
SetPhase(m, s, v, interned) ==
    IF Is(v, m.shadow[s], interned) THEN m
    ELSE IF s \in TempSettings THEN PhaseWritten(SetSolderTemp(Unset(m, s), s, v), s, v)
    ELSE PhaseWritten(SetSolderTimePwr(Unset(m, s), s, v), s, v)

SetterOn(m, s, v, interned) ==
    CASE s \in {"memory_slot", "background_light"} -> SetClamped(m, s, v, interned)
      [] s = "temp_unit" -> SetTempUnit(m, v, interned)
      [] s \in FlagSettings -> SetFlag(m, s, v, interned)
      [] OTHER -> SetPhase(m, s, v, interned)

\* the property setters, by setting
Setter(m, s, v, interned) == SetterOn(Entry(m), s, v, interned)

(***************************************************************************)
(* temperature, start, stop                                                *)
(***************************************************************************)
RECURSIVE TemperatureLoop(_, _)
TemperatureStep(r, i) ==
    IF r.st = "ok" /\ 0 <= r.val.n /\ r.val.n <= 490 THEN Return(r.m, r.val)
    ELSE IF i = number_of_trials - 1 THEN Raise(r.m, ConnErr("read", "temperature"))
    ELSE TemperatureLoop(r.m, i + 1)

TemperatureLoop(m, i) ==
    IF i >= number_of_trials THEN Return(m, None)
    ELSE TemperatureStep(WriteCommand(m, Cmd("tempshow", "", None)), i)

Temperature(m) == TemperatureLoop(Entry(m), 0)

\* the loops of start() and stop(): c is "doStart" or "doStop"
RECURSIVE StartStopLoop(_, _, _)
StartStopStep(r, c, i) ==
    IF r.st = "ok" THEN r.m
    ELSE IF r.st = "short" THEN Raise(r.m, IndexErr)
    ELSE IF i = number_of_trials - 1
       THEN Raise(r.m, ConnErr(IF c = "doStart" THEN "start" ELSE "stop", "controller"))
    ELSE StartStopLoop(r.m, c, i + 1)

StartStopLoop(m, c, i) ==
    IF i >= number_of_trials THEN m
    ELSE StartStopStep(WriteCommand(m, Cmd(c, "", None)), c, i)

Start(m) == StartStopLoop(Entry(m), "doStart", 0)

Stop(m) == StartStopLoop(Entry(m), "doStop", 0)

\* check_serial_connection: a response with the stop acknowledgement in one
\* of its lines within the trials; the result is returned as 1 or 0
RECURSIVE CheckSerialConnection(_, _)
CheckStep(r, i) ==
    IF r.st = "ok" THEN Return(r.m, I(1)) ELSE CheckSerialConnection(r.m, i + 1)

CheckSerialConnection(m, i) ==
    IF i >= number_of_trials THEN Return(m, I(0))
    ELSE CheckStep(WriteCommand(m, Cmd("doStop", "", None)), i)

\* _serial_init after the drain: "if not connected: raise ConnectionError"
Connected(m) ==
    IF m.ret = I(1) THEN Return(m, None) ELSE Raise(m, ConnErr("connect", "controller"))

SerialInit(m) == Connected(CheckSerialConnection(Entry(m), 0))

(***************************************************************************)
(* The settings record and the flows over all settings                     *)
(***************************************************************************)
\* the file: missing, empty (json.load raises JSONDecodeError) or a record
\* {'old_settings_written_back_without_errors': clean, 'data': data}
FileMissing == [state |-> "missing", clean |-> FALSE, data |-> AllNone]

FileEmpty == [state |-> "empty", clean |-> FALSE, data |-> AllNone]

Record(clean, data) == [state |-> "record", clean |-> clean, data |-> data]

\* json.dump, written to the file: the log keeps the event
RecordWritten(clean) == Cmd("record", "", IF clean THEN I(1) ELSE I(0))

WithRecordWritten(m, clean) ==
    [m EXCEPT !.log = Append(@, RecordWritten(clean)), !.ret = None]

\* the getter the dict display of _get_initial_controller_settings calls for
\* each key, the keys in the order of the display
CaptureSource(key) == IF key = "dwell_temp" THEN "dwell_time" ELSE key

\* _get_initial_controller_settings from its idx-th key on; acc is the dict
\* built so far.  An error of a getter ends the capture.
RECURSIVE CaptureFrom(_, _, _)
CaptureNext(g, acc, idx) ==
    IF g.err # NoErr THEN [m |-> g, data |-> acc]
    ELSE CaptureFrom(g, [acc EXCEPT ![SettingNames[idx]] = g.ret], idx + 1)

CaptureFrom(m, acc, idx) ==
    IF idx > Len(SettingNames) THEN [m |-> m, data |-> acc]
    ELSE CaptureNext(Getter(m, CaptureSource(SettingNames[idx])), acc, idx)

GetInitialControllerSettings(m) == CaptureFrom(m, AllNone, 1)

\* a save that would capture whatever the record says
AlwaysCaptures(f) == FALSE

\* the branch of save_initial_controller_settings: the record says the last
\* run did not write the settings back
Reuses(f) == f.state = "record" /\ ~f.clean

\* the two capturing branches, after _get_initial_controller_settings
SaveCaptured(c, initial, f) ==
    IF c.m.err # NoErr THEN [m |-> c.m, initial |-> initial, file |-> f]
    ELSE [m |-> WithRecordWritten(c.m, FALSE),
          initial |-> c.data,
          file |-> Record(FALSE, c.data)]

SaveInitialOn(m, initial, f) ==
    IF f.state = "missing"
       THEN [m |-> Raise(m, FileNotFoundErr), initial |-> initial, file |-> f]
    ELSE IF Reuses(f)
       THEN [m |-> WithRecordWritten(m, FALSE),
             initial |-> f.data,
             file |-> Record(FALSE, f.data)]
    ELSE SaveCaptured(GetInitialControllerSettings(m), initial, f)

\* save_initial_controller_settings: yields the machine, self._initial_settings
\* and the file afterwards
SaveInitialControllerSettings(m, initial, f) == SaveInitialOn(Entry(m), initial, f)

\* a run of property assignments: seq holds <<setting, value>> pairs; the
\* first error ends the run
RECURSIVE SetAll(_, _, _, _)
SetNext(w, seq, idx, interned) ==
    IF w.err # NoErr THEN w ELSE SetAll(w, seq, idx + 1, interned)

SetAll(m, seq, idx, interned) ==
    IF idx > Len(seq) THEN m
    ELSE SetNext(Setter(m, seq[idx][1], seq[idx][2], interned), seq, idx, interned)

\* an order that would assign the memory slot first
SlotFirstOrder ==
    << "memory_slot", "temp_unit", "trace", "temp_trace", "debug", "background_light",
       "preheat_temp", "preheat_time", "preheat_pwr",
       "soak_temp", "soak_time", "soak_pwr",
       "reflow_temp", "reflow_time", "reflow_pwr",
       "dwell_temp", "dwell_time", "dwell_pwr",
       "auto_extend" >>

\* the order in which write_back_initial_controller_settings assigns
WriteBackOrder ==
    << "temp_unit", "trace", "temp_trace", "debug", "background_light",
       "preheat_temp", "preheat_time", "preheat_pwr",
       "soak_temp", "soak_time", "soak_pwr",
       "reflow_temp", "reflow_time", "reflow_pwr",
       "dwell_temp", "dwell_time", "dwell_pwr",
       "auto_extend", "memory_slot" >>

WriteBackAssignments(initial) ==
    [i \in 1..Len(WriteBackOrder) |-> <<WriteBackOrder[i], initial[WriteBackOrder[i]]>>]

\* the end of write_back_initial_controller_settings: the record is written
WriteBackDone(w, initial, f) ==
    IF w.err # NoErr THEN [m |-> w, file |-> f]
    ELSE [m |-> WithRecordWritten(w, TRUE), file |-> Record(TRUE, initial)]

\* write_back_initial_controller_settings: yields the machine and the file
WriteBackInitialControllerSettings(m, initial, f, interned) ==
    WriteBackDone(SetAll(Entry(m), WriteBackAssignments(initial), 1, interned), initial, f)

\* controller_init: the values this software needs
ControllerInitValues ==
    << <<"memory_slot", I(4)>>, <<"temp_unit", S("C")>>, <<"trace", S("OFF")>>,
       <<"temp_trace", S("OFF")>>, <<"debug", S("OFF")>>,
       <<"background_light", I(0)>>, <<"auto_extend", S("OFF")>> >>

ControllerInit(m, interned) == SetAll(Entry(m), ControllerInitValues, 1, interned)

\* the assignments of V3Pro.set_profile_on_device for a profile whose data
\* are points <<time, temperature, power>>
ProfileAssignments(d) ==
    << <<"preheat_time", I(d[1][1])>>, <<"preheat_temp", I(d[1][2])>>, <<"preheat_pwr", I(d[1][3])>>,
       <<"soak_time", I(d[2][1] - d[1][1])>>, <<"soak_temp", I(d[2][2])>>, <<"soak_pwr", I(d[2][3])>>,
       <<"reflow_time", I(d[3][1] - d[2][1])>>, <<"reflow_temp", I(d[3][2])>>, <<"reflow_pwr", I(d[3][3])>>,
       <<"dwell_time", I(d[4][1] - d[3][1])>>, <<"dwell_temp", I(d[4][2])>>, <<"dwell_pwr", I(d[4][3])>> >>

\* the points a profile lacks raise IndexError when they are indexed
Padded(d) == [i \in 1..4 |-> IF i <= Len(d) THEN d[i] ELSE <<0, 0, 0>>]

MissingPoint(w) == IF w.err # NoErr THEN w ELSE Raise(w, IndexErr)

\* V3Pro.set_profile_on_device; active is "self.running or self.run_out".
\* A profile with fewer than four points raises IndexError at the first
\* missing point, after the assignments of the points before it.
SetProfileOnDevice(m, d, active, interned) ==
    IF ~active THEN Entry(m)
    ELSE IF Len(d) >= 4 THEN SetAll(Entry(m), ProfileAssignments(d), 1, interned)
    ELSE MissingPoint(SetAll(Entry(m), SubSeq(ProfileAssignments(Padded(d)), 1, 3 * Len(d)), 1, interned))

(***************************************************************************)
(* Bounds and inputs                                                       *)
(***************************************************************************)
\* the disturbance of the line is one burst, placed at Init
MaxSkip == 1

\* a burst is a glitch (one exchange) or an outage that outlasts a retry
\* loop by up to MaxExtra exchanges
MaxExtra == 0

Bursts(kinds) ==
    [skip : 0..MaxSkip,
     count : {1} \cup { number_of_trials + e : e \in 0..MaxExtra },
     kind : kinds,
     used : {TRUE}]

\* settings a controller may hold when the software first meets it
ConfigA ==
    [s \in Settings |->
        CASE s = "memory_slot" -> I(0)
          [] s = "temp_unit" -> S("F")
          [] s \in {"trace", "debug"} -> S("ON")
          [] s \in {"temp_trace", "auto_extend"} -> S("OFF")
          [] s = "background_light" -> I(7)
          [] s = "preheat_temp" -> I(300) [] s = "preheat_time" -> I(90) [] s = "preheat_pwr" -> I(80)
          [] s = "soak_temp" -> I(330) [] s = "soak_time" -> I(0) [] s = "soak_pwr" -> I(70)
          [] s = "reflow_temp" -> I(420) [] s = "reflow_time" -> I(45) [] s = "reflow_pwr" -> I(100)
          [] s = "dwell_temp" -> I(200) [] s = "dwell_time" -> I(30) [] OTHER -> I(0)]

ConfigB ==
    [s \in Settings |->
        CASE s = "memory_slot" -> I(4)
          [] s = "temp_unit" -> S("C")
          [] s \in FlagSettings -> S("OFF")
          [] s = "background_light" -> I(0)
          [] s \in TempSettings -> I(60)
          [] s \in TimeSettings -> I(60)
          [] OTHER -> I(50)]

\* profiles: the points <<time, temperature, power>>
ProfileStd == << <<60, 150, 50>>, <<120, 180, 60>>, <<180, 220, 70>>, <<240, 100, 30>> >>

ProfileHot == << <<60, 150, 50>>, <<120, 300, 60>>, <<180, 220, 101>>, <<240, 100, 30>> >>

ProfileShort == << <<60, 150, 50>>, <<120, 180, 60>> >>

(***************************************************************************)
(* State of the client and its operations as actions                       *)
(***************************************************************************)
FreshConn == [shadow |-> AllNone, initial |-> AllNone]

NoOp == [op |-> "none", s |-> "", v |-> None, before |-> None,
         log |-> <<>>, err |-> NoErr, ret |-> None]

Done(op, s, v, m) ==
    [op |-> op, s |-> s, v |-> v,
     before |-> IF s \in Settings THEN conn.shadow[s] ELSE None,
     log |-> m.log, err |-> m.err, ret |-> m.ret]

\* the machine the next operation starts from
M ==
    [settings |-> ctrl.settings, heating |-> ctrl.heating, temp |-> ctrl.temp,
     link |-> link, shadow |-> conn.shadow, log |-> <<>>, err |-> NoErr, ret |-> None]

Commit(m) ==
    /\ ctrl' = [ctrl EXCEPT !.settings = m.settings, !.heating = m.heating]
    /\ link' = m.link

HistInit == [captured |-> AllNone, reuses |-> 0, focus |-> ""]

\* Device.__init__ (the profile is the one the profile list selects)
DevIdle ==
    [temperature |-> 0, profile |-> ProfileStd, running |-> FALSE, run_out |-> FALSE,
     runtime |-> 0, start_time |-> 0, points |-> <<>>]

Rest == UNCHANGED <<dev, thr, now, wire, py, usb, profiles>>

\* where an operation of start_device leaves the caller: an exception ends
\* start_device
After(m, next) == IF m.err = NoErr THEN next ELSE "idle"

\* --- V3Pro's use of the connection: start_device runs
\* save_initial_controller_settings, controller_init, set_profile_on_device
\* and start in this order; an exception of one of them ends it ---

MaxReuses == 2

SaveInitialEnds(r) ==
    /\ Commit(r.m)
    /\ conn' = [shadow |-> r.m.shadow, initial |-> r.initial]
    /\ file' = r.file
    /\ last' = Done("save_initial", "", None, r.m)
    /\ hist' = IF r.m.err = NoErr /\ ~Reuses(file)
                  THEN [hist EXCEPT !.captured = ctrl.settings, !.reuses = 0]
               ELSE IF r.m.err = NoErr /\ hist.reuses < MaxReuses
                  THEN [hist EXCEPT !.reuses = @ + 1]
               ELSE hist
    /\ pc' = After(r.m, "saved")

SaveInitial ==
    /\ pc = "idle"
    /\ SaveInitialEnds(SaveInitialControllerSettings(M, conn.initial, file))
    /\ Rest

\* an operation that changes the controller and the cache ends
Ends(op, m, next) ==
    /\ Commit(m)
    /\ conn' = [conn EXCEPT !.shadow = m.shadow]
    /\ last' = Done(op, "", None, m)
    /\ pc' = next

DoControllerInit ==
    /\ pc = "saved"
    /\ \E m \in {ControllerInit(M, py.interned)} : Ends("controller_init", m, After(m, "inited"))
    /\ UNCHANGED <<file, hist>>
    /\ Rest

\* set_profile_on_device: inside start_device, or from a request while the
\* device is running
DoSetProfile ==
    /\ pc \in {"inited", "running"}
    /\ \E d \in {ProfileStd, ProfileHot, ProfileShort} :
        \E m \in {SetProfileOnDevice(M, d, TRUE, py.interned)} :
            Ends("set_profile", m, IF pc = "running" THEN pc ELSE After(m, "profiled"))
    /\ UNCHANGED <<file, hist>>
    /\ Rest

DoStart ==
    /\ pc = "profiled"
    /\ \E m \in {Start(M)} : Ends("start", m, After(m, "running"))
    /\ UNCHANGED <<file, hist>>
    /\ Rest

\* V3Pro.stop_device
DoStop ==
    /\ pc = "running"
    /\ \E m \in {Stop(M)} : Ends("stop", m, "idle")
    /\ UNCHANGED <<file, hist>>
    /\ Rest

\* write_back_initial_controller_settings, as device_finished and __del__
\* call it
WriteBack ==
    /\ pc = "idle"
    /\ \E r \in {WriteBackInitialControllerSettings(M, conn.initial, file, py.interned)} :
        /\ Ends("write_back", r.m, pc)
        /\ file' = r.file
    /\ UNCHANGED hist
    /\ Rest

\* the process ends without a write-back (a crash, a kill) and a new one
\* opens the port: the controller and the file stay, the object is new
Opened(m) ==
    /\ Commit(m)
    /\ conn' = FreshConn
    /\ last' = Done("new_session", "", None, m)
    /\ pc' = IF m.err = NoErr THEN "idle" ELSE "closed"

NewSession ==
    /\ Opened(SerialInit(M))
    /\ UNCHANGED <<file, hist>>
    /\ Rest

\* the line is disturbed from now on
SessionLinkFault ==
    /\ link = Quiet
    /\ link' \in Bursts({"marker", "short"})
    /\ UNCHANGED <<ctrl, conn, file, last, hist, pc, usb, profiles>>
    /\ Rest

InitSession ==
    /\ ctrl \in [settings : {ConfigA, ConfigB}, heating : {FALSE}, temp : {25}]
    /\ link = Quiet
    /\ py \in [interned : BOOLEAN]
    /\ conn = FreshConn
    /\ file \in {FileMissing, FileEmpty, Record(TRUE, AllNone)}
    /\ last = NoOp
    /\ hist = HistInit
    /\ dev = DevIdle
    /\ thr = <<>>
    /\ now = 0
    /\ wire = <<>>
    /\ pc = "idle"
    /\ usb = <<>>
    /\ profiles = <<>>

NextSession ==
    \/ SessionLinkFault
    \/ SaveInitial
    \/ DoControllerInit
    \/ DoSetProfile
    \/ DoStart
    \/ DoStop
    \/ WriteBack
    \/ NewSession

SpecSession == InitSession /\ [][NextSession]_vars

(***************************************************************************)
(* The operations of the connection one by one (SpecOps): a caller reads   *)
(* and assigns one setting (hist.focus; with a phase temperature also the  *)
(* temperature unit), or uses temperature, start and stop ("device").      *)
(***************************************************************************)
\* values a caller assigns
SetValues(s) ==
    CASE s = "memory_slot" -> {I(0), I(4), I(7)}
      [] s = "background_light" -> {I(0), I(7), I(12)}
      [] s = "temp_unit" -> {S("C"), S("F")}
      [] s \in FlagSettings -> {S("ON"), S("off"), I(1), I(0), S("x")}
      [] s \in TempSettings -> {I(-5), I(20), I(100), I(300), I(500)}
      [] s \in TimeSettings -> {I(-1), I(0), I(60), I(65535)}
      [] OTHER -> {I(0), I(50), I(101)}

Targets(focus) ==
    IF focus \in TempSettings THEN {focus, "temp_unit"}
    ELSE IF focus \in Settings THEN {focus}
    ELSE {}

OpEnds(op, s, v, m) ==
    /\ Commit(m)
    /\ conn' = [conn EXCEPT !.shadow = m.shadow]
    /\ last' = Done(op, s, v, m)
    /\ UNCHANGED <<file, hist, pc, usb, profiles>>
    /\ Rest

\* x = connection.<setting>
OpGet ==
    \E s \in Targets(hist.focus) : OpEnds("get", s, None, Getter(M, s))

\* connection.<setting> = v
OpSet ==
    \E s \in Targets(hist.focus) : \E v \in SetValues(s) :
        OpEnds("set", s, v, Setter(M, s, v, py.interned))

OpTemperature ==
    /\ hist.focus = "device"
    /\ OpEnds("temperature", "", None, Temperature(M))

OpStart ==
    /\ hist.focus = "device"
    /\ OpEnds("start", "", None, Start(M))

OpStop ==
    /\ hist.focus = "device"
    /\ OpEnds("stop", "", None, Stop(M))

\* the oven warms up and cools down
OvenTemperature ==
    /\ hist.focus = "device"
    /\ \E t \in {25, 150, 491} \ {ctrl.temp} : ctrl' = [ctrl EXCEPT !.temp = t]
    /\ UNCHANGED <<link, conn, file, last, hist, pc, usb, profiles>>
    /\ Rest

OpsLinkFault ==
    /\ link = Quiet
    /\ link' \in Bursts(FaultKinds)
    /\ UNCHANGED <<ctrl, conn, file, last, hist, pc, usb, profiles>>
    /\ Rest

InitOps ==
    /\ ctrl \in [settings : {ConfigA, ConfigB}, heating : {FALSE}, temp : {25}]
    /\ link = Quiet
    /\ py \in [interned : BOOLEAN]
    /\ conn = FreshConn
    /\ file = FileEmpty
    /\ last = NoOp
    /\ hist \in [captured : {AllNone}, reuses : {0}, focus : Settings \cup {"device"}]
    /\ dev = DevIdle
    /\ thr = <<>>
    /\ now = 0
    /\ wire = <<>>
    /\ pc = "ops"
    /\ usb = <<>>
    /\ profiles = <<>>

NextOps ==
    \/ OpsLinkFault
    \/ OpGet
    \/ OpSet
    \/ OpTemperature
    \/ OpStart
    \/ OpStop
    \/ OvenTemperature

SpecOps == InitOps /\ [][NextOps]_vars

(***************************************************************************)
(* The device with its sampling threads (SpecDevice): Device.start and     *)
(* Device.stop as the start/stop request calls them, V3Pro.start_device,   *)
(* and Device._run in two steps per iteration, the sample                  *)
(* (get_temperature) and the rest of the loop body.                        *)
(***************************************************************************)
follow_up_time == 30

\* time.sleep(2) in V3Pro.get_temperature
SleepTime == 2

\* time.time() when the model starts, and how long it watches
Epoch == 100

Horizon == 44

MaxThreads == 1

ProfileQuick == << <<2, 150, 50>>, <<4, 180, 60>>, <<6, 220, 70>>, <<8, 100, 30>> >>

\* Profile.duration: the largest time of the points
Duration(d) == CHOOSE t \in { d[i][1] : i \in 1..Len(d) } : \A j \in 1..Len(d) : d[j][1] <= t

\* the locals of _run before its loop
NewThread ==
    [pc |-> "sample", follow_up_time |-> follow_up_time, time_stamp |-> 0,
     last_time_stamp |-> 0, last_temperature |-> 0, wake |-> 0]

\* a start_device that would send the start command whatever the steps
\* before it did
StartsAnyway(m, x) == [x EXCEPT !.m = Start(m), !.threaded = TRUE]

\* V3Pro.start_device: x is [m, initial, file, threaded]; an exception ends
\* it where it is raised; the thread is created before connection.start()
StartDeviceProfiled(m, x) ==
    IF m.err # NoErr THEN [x EXCEPT !.m = m]
    ELSE [x EXCEPT !.m = Start(m), !.threaded = TRUE]

StartDeviceInited(m, x, d, interned) ==
    IF m.err # NoErr THEN [x EXCEPT !.m = m]
    ELSE StartDeviceProfiled(SetProfileOnDevice(m, d, TRUE, interned), x)

StartDeviceSaved(r, d, interned) ==
    IF r.m.err # NoErr
       THEN [m |-> r.m, initial |-> r.initial, file |-> r.file, threaded |-> FALSE]
    ELSE StartDeviceInited(ControllerInit(r.m, interned),
                           [m |-> r.m, initial |-> r.initial, file |-> r.file, threaded |-> FALSE],
                           d, interned)

StartDevice(m, initial, f, d, interned) ==
    StartDeviceSaved(SaveInitialControllerSettings(m, initial, f), d, interned)

\* Device.start, with start_device's result x
DevStarted(x) ==
    /\ Commit(x.m)
    /\ conn' = [shadow |-> x.m.shadow, initial |-> x.initial]
    /\ file' = x.file
    /\ dev' = [dev EXCEPT !.points = <<>>, !.start_time = now,
                          !.running = TRUE, !.run_out = FALSE]
    /\ thr' = IF x.threaded
                 THEN Append(thr, [NewThread EXCEPT !.wake = now + SleepTime])
              ELSE thr
    /\ last' = Done("start_device", "", None, x.m)
    /\ hist' = IF ~Reuses(file) /\ x.file # file
                  THEN [hist EXCEPT !.captured = ctrl.settings]
               ELSE hist

\* update_start_stop while the device is not running
DevStart ==
    /\ ~dev.running
    /\ Len(thr) < MaxThreads
    /\ DevStarted(StartDevice(M, conn.initial, file, dev.profile, py.interned))
    /\ UNCHANGED <<now, wire, py, pc, usb, profiles>>

\* update_start_stop while the device is running: Device.stop
DevStop ==
    /\ dev.running
    /\ dev' = [dev EXCEPT !.running = FALSE, !.run_out = TRUE]
    /\ last' = [NoOp EXCEPT !.op = "stop"]
    /\ UNCHANGED <<ctrl, link, conn, file, hist, thr, now, wire, py, pc, usb, profiles>>

\* a loop that would catch the exception of get_temperature() and go on
SampledOrSkipped(t, m) ==
    /\ Commit(m)
    /\ dev' = IF m.err = NoErr THEN [dev EXCEPT !.temperature = m.ret.n] ELSE dev
    /\ thr' = [thr EXCEPT ![t].pc = "update"]
    /\ last' = Done("temperature", "", None, m)

\* self.temperature = self.get_temperature(); an exception ends the thread
Sampled(t, m) ==
    /\ Commit(m)
    /\ dev' = IF m.err = NoErr THEN [dev EXCEPT !.temperature = m.ret.n] ELSE dev
    /\ thr' = [thr EXCEPT ![t].pc = IF m.err = NoErr THEN "update" ELSE "dead"]
    /\ last' = Done("temperature", "", None, m)

RunSample ==
    \E t \in 1..Len(thr) :
        /\ thr[t].pc = "sample"
        /\ now >= thr[t].wake
        /\ Sampled(t, Temperature(M))
        /\ UNCHANGED <<conn, file, hist, now, wire, py, pc, usb, profiles>>

\* the points after the append(s) of one iteration
WithPoint(points, runtime, th, temperature) ==
    IF Len(points) = 0 /\ runtime > 0
       THEN << <<0, th.last_temperature>>, <<runtime, temperature>> >>
    ELSE Append(points, <<runtime, temperature>>)

\* "if self.running or self.run_out: ... else: self.runtime = 0"
RunMeasured(d, th, t) ==
    IF d.running \/ d.run_out
       THEN [d |-> [d EXCEPT !.runtime = t - d.start_time,
                             !.points = WithPoint(d.points, t - d.start_time, th, d.temperature)],
             th |-> [th EXCEPT !.time_stamp = t],
             stop |-> FALSE]
    ELSE [d |-> [d EXCEPT !.runtime = 0], th |-> th, stop |-> FALSE]

\* "if self.run_out and follow_up_time > 0: ... elif ...": stop says that
\* stop_device() is called
RunFollowUp(x) ==
    IF x.d.run_out /\ x.th.follow_up_time > 0
       THEN [x EXCEPT !.th.follow_up_time = @ - (x.th.time_stamp - x.th.last_time_stamp)]
    ELSE IF x.d.run_out
       THEN [x EXCEPT !.d.run_out = FALSE, !.d.running = FALSE,
                      !.th.follow_up_time = follow_up_time, !.stop = TRUE]
    ELSE x

\* "if self.runtime >= self.profile.duration and self.running:"
RunFinished(x) ==
    IF x.d.runtime >= Duration(x.d.profile) /\ x.d.running
       THEN [x EXCEPT !.d.running = FALSE, !.d.run_out = TRUE]
    ELSE x

RunClosed(x) ==
    [x EXCEPT !.th.last_time_stamp = x.th.time_stamp,
              !.th.last_temperature = x.d.temperature,
              !.th.pc = "sample"]

\* the loop body after stop_device() has returned or raised
RunRest(x, raised) ==
    IF raised THEN [x EXCEPT !.th.pc = "dead"] ELSE RunClosed(RunFinished(x))

RunUpdated(t, x, m) ==
    /\ Commit(m)
    /\ dev' = RunRest(x, m.err # NoErr).d
    /\ thr' = [thr EXCEPT ![t] = [RunRest(x, m.err # NoErr).th EXCEPT !.wake = now + SleepTime]]
    /\ last' = IF x.stop THEN Done("stop_device", "", None, m)
               ELSE [NoOp EXCEPT !.op = "update"]

RunStep(t, x) == RunUpdated(t, x, IF x.stop THEN Stop(M) ELSE M)

\* the rest of one iteration of _run; stop_device() is connection.stop()
RunUpdate ==
    \E t \in 1..Len(thr) :
        /\ thr[t].pc = "update"
        /\ RunStep(t, RunFollowUp(RunMeasured(dev, thr[t], now)))
        /\ UNCHANGED <<conn, file, hist, now, wire, py, pc, usb, profiles>>

\* a thread that can run does so before time.time() changes
Asleep(th) == th.pc = "dead" \/ (th.pc = "sample" /\ th.wake > now)

Tick ==
    /\ now + SleepTime <= Epoch + Horizon
    /\ \A t \in 1..Len(thr) : Asleep(thr[t])
    /\ now' = now + SleepTime
    /\ UNCHANGED <<ctrl, link, conn, file, last, hist, dev, thr, wire, py, pc, usb, profiles>>

DeviceLinkFault ==
    /\ link = Quiet
    /\ link' \in Bursts({"marker", "short"})
    /\ UNCHANGED <<ctrl, conn, file, last, hist, dev, thr, now, wire, py, pc, usb, profiles>>

InitDevice ==
    /\ ctrl \in [settings : {ConfigA}, heating : {FALSE}, temp : {25}]
    /\ link = Quiet
    /\ py \in [interned : BOOLEAN]
    /\ conn = FreshConn
    /\ file \in {FileMissing, FileEmpty, Record(TRUE, AllNone)}
    /\ last = NoOp
    /\ hist = HistInit
    /\ dev \in {[DevIdle EXCEPT !.profile = d] : d \in {ProfileQuick, ProfileShort}}
    /\ thr = <<>>
    /\ now = Epoch
    /\ wire = <<>>
    /\ pc = "device"
    /\ usb = <<>>
    /\ profiles = <<>>

NextDevice ==
    \/ DeviceLinkFault
    \/ DevStart
    \/ DevStop
    \/ RunSample
    \/ RunUpdate
    \/ Tick

SpecDevice == InitDevice /\ [][NextDevice]_vars

(***************************************************************************)
(* _write_command line by line, with two threads on one connection         *)
(* (SpecWire): the sampling thread reads the temperature, a caller sets a  *)
(* value.  wire holds the lock _dev_access, the port, the controller's     *)
(* output that is not read yet (each line with the thread whose command    *)
(* it answers), the thread whose exchange is open, and per thread where    *)
(* it stands in _write_command.                                            *)
(***************************************************************************)
Threads == {"sampler", "caller"}

\* a response has up to MaxLines lines before its blank line
MaxLines == 2

WireIdle == [pc |-> "idle", unsuccessful |-> FALSE, lines |-> 0, result |-> "none"]

WireInit(ser) ==
    [lock |-> "", ser |-> ser, out |-> <<>>, open |-> "", mixed |-> FALSE,
     th |-> [t \in Threads |-> WireIdle]]

\* an acquire() that would not wait
NeverWaits(w) == TRUE

\* threading.Lock.acquire() returns when the lock is free
CanAcquire(w) == w.lock = ""

\* what the controller sends for a command of thread t: n lines, with or
\* without the failure marker in the first, and the blank line
ResponseLines(t, n, marker) ==
    [i \in 1..(n + 1) |->
        [of |-> t,
         text |-> IF i = n + 1 THEN "blank"
                  ELSE IF marker /\ i = 1 THEN "marker" ELSE "line"]]

\* the port is used by t while the exchange of another thread is open
Mixes(w, t) == w.mixed \/ w.open \notin {"", t}

WireRest == UNCHANGED <<ctrl, link, conn, file, last, hist, dev, thr, now, py, pc, usb, profiles>>

\* self._dev_access.acquire()
Acquire ==
    /\ \E t \in Threads :
        /\ wire.th[t].pc = "idle"
        /\ CanAcquire(wire)
        /\ wire' = [wire EXCEPT !.lock = t, !.th[t] = [WireIdle EXCEPT !.pc = "write"]]
    /\ WireRest

\* self.ser.write(...) on an open port
Write ==
    /\ wire.ser = "open"
    /\ \E t \in Threads, n \in 1..MaxLines, marker \in BOOLEAN :
        /\ wire.th[t].pc = "write"
        /\ wire' = [wire EXCEPT !.out = @ \o ResponseLines(t, n, marker),
                                !.mixed = Mixes(wire, t),
                                !.open = t,
                                !.th[t].pc = "read"]
    /\ WireRest

\* self.ser is None: AttributeError, the lock is released, ConnectionError
WriteFails ==
    /\ wire.ser = "none"
    /\ \E t \in Threads :
        /\ wire.th[t].pc = "write"
        /\ wire' = [wire EXCEPT !.lock = "", !.th[t].pc = "idle", !.th[t].result = "raised"]
    /\ WireRest

\* self.ser.write(...) raises serial.SerialException (the device was pulled
\* out): only AttributeError is caught, the exception leaves _write_command
WriteRaises ==
    /\ wire.ser = "open"
    /\ \E t \in Threads :
        /\ wire.th[t].pc = "write"
        /\ wire' = [wire EXCEPT !.th[t].pc = "idle", !.th[t].result = "raised"]
    /\ WireRest

\* self._read_line() raises: serial.SerialException of readline(), or
\* UnicodeDecodeError of decode() on bytes that are not UTF-8
ReadRaises ==
    /\ \E t \in Threads :
        /\ wire.th[t].pc = "read"
        /\ wire' = [wire EXCEPT !.th[t].pc = "idle", !.th[t].result = "raised"]
    /\ WireRest

\* the line readline() returns: the next line of the controller's output, or
\* '' after the timeout when there is none
NextLine(w) == IF w.out = <<>> THEN [of |-> "", text |-> "blank"] ELSE Head(w.out)

\* one pass of the while loop: rawline = self._read_line() ...
WireRead(t, line) ==
    wire' = [wire EXCEPT
                !.out = IF @ = <<>> THEN @ ELSE Tail(@),
                !.mixed = Mixes(wire, t) \/ line.of \notin {"", t},
                !.open = IF line.text = "blank" /\ @ = t THEN "" ELSE @,
                !.th[t].unsuccessful = @ \/ line.text = "marker",
                !.th[t].lines = IF line.text = "blank" THEN @ ELSE @ + 1,
                !.th[t].pc = IF line.text = "blank" THEN "release" ELSE "read"]

ReadLine ==
    /\ \E t \in Threads :
        /\ wire.th[t].pc = "read"
        /\ WireRead(t, NextLine(wire))
    /\ WireRest

\* self._dev_access.release(), then raise or return
Release ==
    /\ \E t \in Threads :
        /\ wire.th[t].pc = "release"
        /\ wire' = [wire EXCEPT !.lock = "",
                                !.th[t].pc = "idle",
                                !.th[t].result = IF wire.th[t].unsuccessful THEN "raised" ELSE "returned"]
    /\ WireRest

InitWire ==
    /\ ctrl \in [settings : {ConfigB}, heating : {FALSE}, temp : {25}]
    /\ link = Quiet
    /\ py = [interned |-> TRUE]
    /\ conn = FreshConn
    /\ file = FileEmpty
    /\ last = NoOp
    /\ hist = HistInit
    /\ dev = DevIdle
    /\ thr = <<>>
    /\ now = 0
    /\ wire \in {WireInit("open"), WireInit("none")}
    /\ pc = "wire"
    /\ usb = <<>>
    /\ profiles = <<>>

NextWire ==
    \/ Acquire
    \/ Write
    \/ WriteFails
    \/ WriteRaises
    \/ ReadLine
    \/ ReadRaises
    \/ Release

SpecWire == InitWire /\ [][NextWire]_vars

(***************************************************************************)
(* The connection probe (SpecProbe): check_if_device_is_v3_pro_device on   *)
(* a port whose line is quiet, disturbed for a while, or never answers.    *)
(***************************************************************************)
\* a port whose device never answers: every read times out, every response
\* is empty, for as many exchanges as one probe makes
Foreign == [skip |-> 0, count |-> 2 * number_of_trials, kind |-> "short", used |-> TRUE]

\* the disturbances a probe can meet
ProbeLines ==
    [skip : 0..MaxSkip, count : 1..(2 * number_of_trials), kind : FaultKinds, used : {TRUE}]

\* "if test_dev.check_serial_connection(): return True else: return False";
\* an exception of the constructor leaves the function
ProbeChecked(m) == IF m.err # NoErr THEN m ELSE CheckSerialConnection(Entry(m), 0)

\* test_dev = V3ProSerialConnection(port): __init__ runs _serial_init(port)
CheckIfDeviceIsV3ProDevice(m) == ProbeChecked(SerialInit(m))

Probed(m) ==
    /\ Commit(m)
    /\ last' = Done("probe", "", None, m)

Probe ==
    /\ Probed(CheckIfDeviceIsV3ProDevice(M))
    /\ UNCHANGED <<conn, file, hist, pc, usb, profiles>>
    /\ Rest

\* the device on the port starts heating (its own keys)
ProbeHeats ==
    /\ ~ctrl.heating
    /\ ctrl' = [ctrl EXCEPT !.heating = TRUE]
    /\ UNCHANGED <<link, conn, file, last, hist, pc, usb, profiles>>
    /\ Rest

ProbeLinkFault ==
    /\ link = Quiet
    /\ link' \in ProbeLines
    /\ UNCHANGED <<ctrl, conn, file, last, hist, pc, usb, profiles>>
    /\ Rest

InitProbe ==
    /\ ctrl \in [settings : {ConfigA, ConfigB}, heating : {FALSE}, temp : {25}]
    /\ link \in {Quiet, Foreign}
    /\ py = [interned |-> TRUE]
    /\ conn = FreshConn
    /\ file = FileMissing
    /\ last = NoOp
    /\ hist = HistInit
    /\ dev = DevIdle
    /\ thr = <<>>
    /\ now = 0
    /\ wire = <<>>
    /\ pc = "probe"
    /\ usb = <<>>
    /\ profiles = <<>>

NextProbe ==
    \/ ProbeLinkFault
    \/ ProbeHeats
    \/ Probe

SpecProbe == InitProbe /\ [][NextProbe]_vars

(***************************************************************************)
(* The sampling loop statement by statement: Device._run of a Simulator    *)
(* (SpecSim, one thread from construction) or of a V3Pro (SpecRun, one     *)
(* thread per start_device) against the commands of the request handlers,  *)
(* which run in their own threads: start/stop (update_start_stop) and      *)
(* reset (update_selected_profile).  A step of a thread is one statement   *)
(* of _run that reads or writes a field of the device; the serial          *)
(* exchanges of the V3Pro succeed here.  pc holds the class of the device. *)
(***************************************************************************)
room_temperature == 21

\* sleep_time in Simulator.get_temperature
SimSleep == 3

\* the commands to a Simulator and until when they come
MaxCommands == 3

LastCommand == 3

\* a later moment at which commands come too: a run of ProfileLong started
\* at once has finished and run out by then
SimVisit == 69

\* how long the clock of a Simulator is watched

SimHorizon == 108

\* the same for a V3Pro: commands at once and at RunVisit
RunCommands == 4

RunVisit == 36

RunHorizon == 40

\* sampling threads of one V3Pro
MaxRunners == 2

\* a profile of three seconds that heats
ProfileBrief == << <<1, 24, 50>>, <<2, 28, 70>>, <<3, 22, 30>> >>

\* a profile that lasts longer than the follow-up, for an oven that stays at
\* room temperature
ProfileLong == << <<9, 18, 50>>, <<18, 19, 60>>, <<27, 20, 70>>, <<36, 21, 30>> >>

\* a / b rounded to the nearest integer, halves to the even one (round())
RoundDiv(a, b) ==
    IF 2 * (a % b) > b \/ (2 * (a % b) = b /\ (a \div b) % 2 = 1)
       THEN (a \div b) + 1
    ELSE a \div b

\* Profile._get_surrounding_points: the loop from index i on; <<>> is None
RECURSIVE SurroundingFrom(_, _, _)
SurroundingFrom(d, second, i) ==
    IF i > Len(d) THEN <<>>
    ELSE IF second = d[i][1] THEN <<d[i], d[i]>>
    ELSE IF second < d[i][1] /\ i = 1 THEN << <<0, 0>>, d[i] >>
    ELSE IF second < d[i][1] THEN <<d[i - 1], d[i]>>
    ELSE SurroundingFrom(d, second, i + 1)

\* Profile._get_surrounding_points of a profile with the points d and the
\* duration its constructor computed
SurroundingPointsOf(d, duration, second) ==
    IF second > duration THEN <<>> ELSE SurroundingFrom(d, second, 1)

GetSurroundingPoints(d, second) == SurroundingPointsOf(d, Duration(d), second)

\* the value between the points p, in hundredths of a degree
TargetBetween(p, second) ==
    IF p[1] # p[2]
       THEN 100 * p[1][2]
            + RoundDiv(100 * (p[2][2] - p[1][2]) * (second - p[1][1]), p[2][1] - p[1][1])
    ELSE 100 * p[1][2]

\* Profile.get_target_temperature, in hundredths of a degree: unpacking
\* None raises TypeError, which yields the last point's temperature
TargetTemperatureOf(d, duration, second) ==
    IF SurroundingPointsOf(d, duration, second) = <<>> THEN 100 * d[Len(d)][2]
    ELSE TargetBetween(SurroundingPointsOf(d, duration, second), second)

\* the same for a profile whose points are those it was constructed with
GetTargetTemperature(d, second) == TargetTemperatureOf(d, Duration(d), second)

\* Simulator.get_temperature after the sleep; up and down are the results
\* of random.randint(5, 6) and random.randint(1, 2)
SimTemperature(d, target, up, down) ==
    IF d.running
       THEN IF target > 100 * d.temperature THEN d.temperature + up
            ELSE IF 100 * d.temperature > target /\ d.temperature > room_temperature + 2
               THEN d.temperature - down
            ELSE room_temperature
    ELSE IF d.temperature > room_temperature + 2 THEN d.temperature - down
    ELSE room_temperature

\* the locals of _run and of get_temperature
Runner == NewThread @@ [target_temp |-> 0]

Sleep == IF pc = "Simulator" THEN SimSleep ELSE SleepTime

\* history: the commands issued; for the run under way the calls of
\* stop_device, how and when it left Running, whether it reached Idle
\* through line 152, whether it was started on an idle device; whether
\* reset() was the last command
RunHist == [cmds |-> 0, stops |-> 0, how |-> "", out_since |-> 0, idled |-> FALSE,
            from_idle |-> FALSE, reset |-> FALSE]

Step(t, to) == thr' = [thr EXCEPT ![t].pc = to]

Quietly == UNCHANGED <<ctrl, link, conn, file, now, wire, py, pc, usb, profiles>>

Did(op) == last' = [NoOp EXCEPT !.op = op]

\* line 138, up to the sleep of get_temperature: the Simulator looks up the
\* target temperature before it sleeps
RunCall ==
    \E t \in 1..Len(thr) :
        /\ thr[t].pc = "sample"
        /\ thr' = [thr EXCEPT ![t].pc = "sleep", ![t].wake = now + Sleep,
                              ![t].target_temp =
                                  IF pc = "Simulator"
                                     THEN GetTargetTemperature(dev.profile, dev.runtime + SimSleep)
                                  ELSE 0]
        /\ Did("call")
        /\ UNCHANGED <<dev, hist>> /\ Quietly

\* line 138 after the sleep: self.temperature = the value returned
RunWake ==
    \E t \in 1..Len(thr), up \in 5..6, down \in 1..2 :
        /\ thr[t].pc = "sleep"
        /\ now >= thr[t].wake
        /\ dev' = [dev EXCEPT !.temperature =
                       IF pc = "Simulator" THEN SimTemperature(dev, thr[t].target_temp, up, down)
                       ELSE ctrl.temp]
        /\ Step(t, "139")
        /\ Did("wake")
        /\ UNCHANGED hist /\ Quietly

\* line 139: "if self.running or self.run_out:"
RunTest ==
    \E t \in 1..Len(thr) :
        /\ thr[t].pc = "139"
        /\ Step(t, IF dev.running \/ dev.run_out THEN "140" ELSE "147")
        /\ Did("test")
        /\ UNCHANGED <<dev, hist>> /\ Quietly

\* lines 140-145
RunMeasure ==
    \E t \in 1..Len(thr) :
        /\ thr[t].pc = "140"
        /\ dev' = [dev EXCEPT !.runtime = now - dev.start_time,
                              !.points = WithPoint(dev.points, now - dev.start_time,
                                                   thr[t], dev.temperature)]
        /\ thr' = [thr EXCEPT ![t].pc = "149", ![t].time_stamp = now]
        /\ Did("measure")
        /\ UNCHANGED hist /\ Quietly

\* line 147
RunZero ==
    \E t \in 1..Len(thr) :
        /\ thr[t].pc = "147"
        /\ dev' = [dev EXCEPT !.runtime = 0]
        /\ Step(t, "149")
        /\ Did("zero")
        /\ UNCHANGED hist /\ Quietly

\* lines 149-150
RunCountDown ==
    \E t \in 1..Len(thr) :
        /\ thr[t].pc = "149"
        /\ thr' = IF dev.run_out /\ thr[t].follow_up_time > 0
                     THEN [thr EXCEPT ![t].pc = "157",
                                      ![t].follow_up_time =
                                          @ - (thr[t].time_stamp - thr[t].last_time_stamp)]
                  ELSE [thr EXCEPT ![t].pc = "151"]
        /\ Did("count_down")
        /\ UNCHANGED <<dev, hist>> /\ Quietly

\* line 151: "elif self.run_out and follow_up_time <= 0:"
RunExpired ==
    \E t \in 1..Len(thr) :
        /\ thr[t].pc = "151"
        /\ Step(t, IF dev.run_out /\ thr[t].follow_up_time <= 0 THEN "152" ELSE "157")
        /\ Did("expired")
        /\ UNCHANGED <<dev, hist>> /\ Quietly

\* lines 152-154
RunIdle ==
    \E t \in 1..Len(thr) :
        /\ thr[t].pc = "152"
        /\ dev' = [dev EXCEPT !.run_out = FALSE, !.running = FALSE]
        /\ thr' = [thr EXCEPT ![t].pc = "155", ![t].follow_up_time = follow_up_time]
        /\ hist' = [hist EXCEPT !.idled = TRUE]
        /\ Did("idle")
        /\ Quietly

\* line 155: self.stop_device()
RunStopDevice ==
    \E t \in 1..Len(thr) :
        /\ thr[t].pc = "155"
        /\ Step(t, "157")
        /\ hist' = [hist EXCEPT !.stops = @ + 1]
        /\ Did("stop_device")
        /\ UNCHANGED dev /\ Quietly

\* lines 161-162 and back to the head of the loop
Closed(th, temperature) ==
    [th EXCEPT !.pc = "sample", !.last_time_stamp = th.time_stamp,
               !.last_temperature = temperature]

\* line 157: "if self.runtime >= self.profile.duration and self.running:"
Finished(d) == d.runtime >= Duration(d.profile) /\ d.running

RunFinishTest ==
    \E t \in 1..Len(thr) :
        /\ thr[t].pc = "157"
        /\ thr' = IF Finished(dev)
                     THEN [thr EXCEPT ![t].pc = "158"]
                  ELSE [thr EXCEPT ![t] = Closed(thr[t], dev.temperature)]
        /\ Did("finish_test")
        /\ UNCHANGED <<dev, hist>> /\ Quietly

\* lines 158-159, then 161-162
RunFinish ==
    \E t \in 1..Len(thr) :
        /\ thr[t].pc = "158"
        /\ dev' = [dev EXCEPT !.running = FALSE, !.run_out = TRUE]
        /\ thr' = [thr EXCEPT ![t] = Closed(thr[t], dev.temperature)]
        /\ hist' = [hist EXCEPT !.out_since = now, !.how = "finish"]
        /\ Did("finish")
        /\ Quietly

\* the requests to a Simulator come in the first LastCommand seconds and at
\* a second visit, at any point of its loop; those to a V3Pro come at once
\* and at a second visit, between two iterations of its threads
CanCommand ==
    IF pc = "Simulator"
       THEN /\ hist.cmds < MaxCommands
            /\ now <= Epoch + LastCommand \/ now = Epoch + SimVisit
    ELSE /\ hist.cmds < RunCommands
         /\ now \in {Epoch, Epoch + RunVisit}
         /\ \A t \in 1..Len(thr) : thr[t].pc = "sleep" /\ thr[t].wake > now

\* update_start_stop while the device is not running: Device.start; the
\* start_device of a V3Pro creates and starts another thread
CmdStart ==
    /\ CanCommand
    /\ ~dev.running
    /\ pc = "V3Pro" => Len(thr) < MaxRunners
    /\ dev' = [dev EXCEPT !.points = <<>>, !.start_time = now,
                          !.running = TRUE, !.run_out = FALSE]
    /\ thr' = IF pc = "V3Pro" THEN Append(thr, Runner) ELSE thr
    /\ hist' = [hist EXCEPT !.cmds = @ + 1, !.stops = 0, !.how = "", !.idled = FALSE,
                            !.from_idle = ~dev.run_out, !.reset = FALSE]
    /\ Did("start")
    /\ Quietly

\* update_start_stop while the device is running: Device.stop
CmdStop ==
    /\ CanCommand
    /\ dev.running
    /\ dev' = [dev EXCEPT !.running = FALSE, !.run_out = TRUE]
    /\ hist' = [hist EXCEPT !.cmds = @ + 1, !.out_since = now, !.how = "stop"]
    /\ Did("stop")
    /\ UNCHANGED thr /\ Quietly

\* update_selected_profile: Device.reset, and Simulator.reset after it
CmdReset ==
    /\ CanCommand
    /\ dev' = [dev EXCEPT !.temperature = IF pc = "Simulator" THEN room_temperature ELSE 0,
                          !.start_time = 0, !.running = FALSE, !.run_out = FALSE,
                          !.runtime = 0, !.points = <<>>]
    /\ hist' = [hist EXCEPT !.cmds = @ + 1, !.how = "", !.idled = FALSE, !.reset = TRUE]
    /\ Did("reset")
    /\ UNCHANGED thr /\ Quietly

\* time.time() moves on while every thread sleeps: by one sleep, or for a
\* V3Pro by a long pause while the device is idle (the iterations of an
\* idle device leave its fields as they are)
Pauses ==
    {Sleep} \cup (IF pc = "V3Pro" /\ ~dev.running /\ ~dev.run_out THEN {follow_up_time} ELSE {})

RunTick ==
    \E d \in Pauses :
        /\ now + d <= Epoch + (IF pc = "Simulator" THEN SimHorizon ELSE RunHorizon)
        /\ \A t \in 1..Len(thr) : thr[t].pc = "sleep" /\ thr[t].wake > now
        /\ now' = now + d
        /\ UNCHANGED <<ctrl, link, conn, file, last, hist, dev, thr, wire, py, pc, usb, profiles>>

\* Simulator.__init__ starts the thread; V3Pro.__init__ does not
InitRunOf(class) ==
    /\ ctrl \in [settings : {ConfigB}, heating : {FALSE}, temp : {25}]
    /\ link = Quiet
    /\ py = [interned |-> TRUE]
    /\ conn = FreshConn
    /\ file = FileMissing
    /\ last = NoOp
    /\ hist = RunHist
    /\ pc = class
    /\ dev \in { [DevIdle EXCEPT !.profile = d,
                                  !.temperature = IF class = "Simulator" THEN room_temperature
                                                  ELSE 0] :
                    d \in IF class = "Simulator" THEN {ProfileBrief, ProfileLong}
                          ELSE {ProfileBrief} }
    /\ thr = IF class = "Simulator" THEN <<Runner>> ELSE <<>>
    /\ now = Epoch
    /\ wire = <<>>
    /\ usb = <<>>
    /\ profiles = <<>>

RunSteps ==
    \/ RunCall
    \/ RunWake
    \/ RunTest
    \/ RunMeasure
    \/ RunZero
    \/ RunCountDown
    \/ RunExpired
    \/ RunIdle
    \/ RunStopDevice
    \/ RunFinishTest
    \/ RunFinish

InitRun == InitRunOf("V3Pro")

NextRun ==
    \/ CmdStart
    \/ CmdStop
    \/ RunSteps
    \/ RunTick

SpecRun == InitRun /\ [][NextRun]_vars

InitSim == InitRunOf("Simulator")

NextSim ==
    \/ CmdStart
    \/ CmdStop
    \/ CmdReset
    \/ RunSteps
    \/ RunTick

SpecSim == InitSim /\ [][NextSim]_vars

\* the threads get the processor and the clock moves on
SpecSimLive == SpecSim /\ WF_vars(RunSteps) /\ WF_vars(RunTick)

(***************************************************************************)
(* The hot-plug daemon and the device list (SpecDaemon): USBDeviceDaemon   *)
(* rescans the serial ports on every USB event and tells DeviceList, which *)
(* probes the added ports.                                                 *)
(***************************************************************************)
\* the plug, unplug and other USB events after construction
MaxEvents == 3

\* the requests that select a device
MaxSelects == 2

\* the serial ports, in the order serial.tools.list_ports.comports() lists
\* them: a V3 Pro, a device that never answers, a port that cannot be
\* opened, another V3 Pro
PortNames == <<"A", "B", "C", "D">>

Locked(p) == p = "C"

LineOf(p) == IF p = "B" THEN Foreign ELSE Quiet

Holds(seq, x) == \E i \in 1..Len(seq) : seq[i] = x

Without(seq, i) == SubSeq(seq, 1, i - 1) \o SubSeq(seq, i + 1, Len(seq))

\* [comport[0] for comport in comports()]
Comports(plugged) == SelectSeq(PortNames, LAMBDA p : p \in plugged)

\* lines 148-151: the list is iterated by index while remove() shortens it
RECURSIVE RemovalLoop(_, _, _, _)
RemovalLoop(active, new_ports, i, removed) ==
    IF i > Len(active) THEN [active |-> active, removed |-> removed]
    ELSE IF ~Holds(new_ports, active[i])
       THEN RemovalLoop(Without(active, i), new_ports, i + 1, Append(removed, active[i]))
    ELSE RemovalLoop(active, new_ports, i + 1, removed)

\* every enumerated port counts as added
AllAdded(active, new_ports) == new_ports

\* lines 154-157
AddedPorts(active, new_ports) == SelectSeq(new_ports, LAMBDA p : ~Holds(active, p))

\* DeviceList._on_removed_devices: the first entry of each port
RECURSIVE FirstOf(_, _, _)
FirstOf(seq, x, i) ==
    IF i > Len(seq) THEN 0 ELSE IF seq[i] = x THEN i ELSE FirstOf(seq, x, i + 1)

RECURSIVE OnRemovedDevices(_, _, _)
OnRemovedDevices(hw, port_list, i) ==
    IF i > Len(port_list) THEN hw
    ELSE IF FirstOf(hw, port_list[i], 1) = 0 THEN OnRemovedDevices(hw, port_list, i + 1)
    ELSE OnRemovedDevices(Without(hw, FirstOf(hw, port_list[i], 1)), port_list, i + 1)

\* the probe of a port, on the line of the device behind it
Answer(p) == CheckIfDeviceIsV3ProDevice([M EXCEPT !.link = LineOf(p)])

\* DeviceList._on_added_devices from the i-th port on; r holds the hardware
\* list, the ports probed and whether an exception left the function
RECURSIVE OnAddedDevices(_, _, _)
RECURSIVE OnAnswer(_, _, _, _)
OnAddedDevices(r, port_list, i) ==
    IF i > Len(port_list) THEN r
    ELSE IF Locked(port_list[i]) THEN OnAddedDevices(r, port_list, i + 1)
    ELSE OnAnswer([r EXCEPT !.probed = Append(@, port_list[i])], port_list, i,
                  Answer(port_list[i]))

\* lines 64-72: the probe raised, answered True (V3Pro.__init__ opens its
\* own V3ProSerialConnection) or answered False
OnAnswer(r, port_list, i, a) ==
    IF a.err # NoErr THEN [r EXCEPT !.raised = TRUE]
    ELSE IF a.ret # I(1) THEN OnAddedDevices(r, port_list, i + 1)
    ELSE IF SerialInit(a).err # NoErr THEN [r EXCEPT !.raised = TRUE]
    ELSE OnAddedDevices([r EXCEPT !.hw = Append(@, port_list[i])], port_list, i + 1)

\* USBDeviceDaemon.__init__ and DeviceList.__init__ up to the wait
NewDaemon(plugged) ==
    [plugged |-> plugged, queue |-> <<"usb_device">>, active |-> <<>>,
     initialized |-> FALSE, alive |-> TRUE, hw |-> <<>>, device_list |-> <<"simulator">>,
     is_set |-> FALSE, selected |-> {"simulator"}]

\* history: the events and the select requests after construction, the
\* events handled, the calls of the ready callback; of the last rescan the
\* known and the enumerated ports, the lists computed for the callbacks,
\* the ports probed and whether an exception ended the handler; the
\* callbacks the last event handled invoked, with their arguments; for
\* every port the callbacks that were given it so far, in their order
DaemonHist ==
    [events |-> 0, selects |-> 0, handled |-> 0, readies |-> 0, K |-> <<>>, N |-> <<>>,
     removed |-> <<>>, added |-> <<>>, probed |-> <<>>, raised |-> FALSE, calls |-> <<>>,
     reports |-> [p \in {PortNames[i] : i \in 1..Len(PortNames)} |-> <<>>]]

\* the reports after a callback was invoked with the ports from the k-th on
RECURSIVE ToldCall(_, _, _, _)
ToldCall(f, kind, ports, k) ==
    IF k > Len(ports) THEN f
    ELSE ToldCall([f EXCEPT ![ports[k]] = Append(@, kind)], kind, ports, k + 1)

\* the reports after the calls from the i-th on
RECURSIVE Told(_, _, _)
Told(f, calls, i) ==
    IF i > Len(calls) THEN f
    ELSE Told(ToldCall(f, calls[i][1], calls[i][2], 1), calls, i + 1)

\* callbacks that would be invoked whatever the lists hold
CallsBoth(removed, added) == << <<"on_removed", removed>>, <<"on_added", added>> >>

\* lines 160-165: "if removed_ports:" and "if added_ports:"
Callbacks(removed, added) ==
    (IF removed # <<>> THEN << <<"on_removed", removed>> >> ELSE <<>>)
        \o (IF added # <<>> THEN << <<"on_added", added>> >> ELSE <<>>)

\* a device is plugged in; the operating system reports it
Plug ==
    \E p \in {PortNames[i] : i \in 1..Len(PortNames)} :
        /\ hist.events < MaxEvents
        /\ p \notin usb.plugged
        /\ usb' = [usb EXCEPT !.plugged = @ \cup {p}, !.queue = Append(@, "usb_device")]
        /\ hist' = [hist EXCEPT !.events = @ + 1]
        /\ last' = [NoOp EXCEPT !.op = "plug"]
        /\ UNCHANGED <<ctrl, link, conn, file, dev, thr, now, wire, py, pc, profiles>>

Unplug ==
    \E p \in usb.plugged :
        /\ hist.events < MaxEvents
        /\ usb' = [usb EXCEPT !.plugged = @ \ {p}, !.queue = Append(@, "usb_device")]
        /\ hist' = [hist EXCEPT !.events = @ + 1]
        /\ last' = [NoOp EXCEPT !.op = "unplug"]
        /\ UNCHANGED <<ctrl, link, conn, file, dev, thr, now, wire, py, pc, profiles>>

\* _pyudev_event_reaction with another DEVTYPE
Notify ==
    /\ hist.events < MaxEvents
    /\ usb' = [usb EXCEPT !.queue = Append(@, "usb_interface")]
    /\ hist' = [hist EXCEPT !.events = @ + 1]
    /\ last' = [NoOp EXCEPT !.op = "notify"]
    /\ UNCHANGED <<ctrl, link, conn, file, dev, thr, now, wire, py, pc, profiles>>

\* _device_initialization_complete and DeviceList._on_device_initialization
InitializationComplete(u) ==
    IF u.initialized THEN u
    ELSE [u EXCEPT !.initialized = TRUE, !.device_list = @ \o u.hw, !.is_set = TRUE]

\* lines 160-169 with the lists s computed at lines 141-157; an exception
\* of a callback ends the handler thread
Handled(s, added, r) ==
    /\ usb' = IF r.raised
                 THEN [usb EXCEPT !.queue = Tail(@), !.active = s.active \o added,
                                  !.hw = r.hw, !.alive = FALSE]
              ELSE InitializationComplete(
                       [usb EXCEPT !.queue = Tail(@), !.active = s.active \o added,
                                   !.hw = r.hw])
    /\ hist' = [hist EXCEPT !.handled = @ + 1,
                            !.readies = IF r.raised \/ usb.initialized THEN @ ELSE @ + 1,
                            !.K = usb.active, !.N = Comports(usb.plugged),
                            !.removed = s.removed, !.added = added,
                            !.probed = r.probed, !.raised = r.raised,
                            !.calls = Callbacks(s.removed, added),
                            !.reports = Told(@, Callbacks(s.removed, added), 1)]

Reported(s, added) ==
    Handled(s, added,
            OnAddedDevices([hw |-> OnRemovedDevices(usb.hw, s.removed, 1),
                            probed |-> <<>>, raised |-> FALSE], added, 1))

Compared(s) == Reported(s, AddedPorts(s.active, Comports(usb.plugged)))

\* one iteration of _event_handler on a 'usb_device' event
Rescan ==
    /\ usb.alive
    /\ usb.queue # <<>>
    /\ Head(usb.queue) = "usb_device"
    /\ Compared(RemovalLoop(usb.active, Comports(usb.plugged), 1, <<>>))
    /\ last' = [NoOp EXCEPT !.op = "rescan"]
    /\ UNCHANGED <<ctrl, link, conn, file, dev, thr, now, wire, py, pc, profiles>>

\* one iteration on any other event: lines 168-169 only
Skip ==
    /\ usb.alive
    /\ usb.queue # <<>>
    /\ Head(usb.queue) # "usb_device"
    /\ usb' = InitializationComplete([usb EXCEPT !.queue = Tail(@)])
    /\ hist' = [hist EXCEPT !.handled = @ + 1,
                            !.readies = IF usb.initialized THEN @ ELSE @ + 1,
                            !.calls = <<>>]
    /\ last' = [NoOp EXCEPT !.op = "skip"]
    /\ UNCHANGED <<ctrl, link, conn, file, dev, thr, now, wire, py, pc, profiles>>

AttributeErr == [type |-> "AttributeError", verb |-> "", subject |-> ""]

\* the ids a request can name: a device is known by its port here
DeviceIds == {"simulator", "unknown"} \cup {PortNames[i] : i \in 1..Len(PortNames)}

\* selected_device (getter): the first device with selected True; "" is None
RECURSIVE SelectedFrom(_, _)
SelectedFrom(u, i) ==
    IF i > Len(u.device_list) THEN ""
    ELSE IF u.device_list[i] \in u.selected THEN u.device_list[i]
    ELSE SelectedFrom(u, i + 1)

SelectedDevice(u) == SelectedFrom(u, 1)

\* selected_device (setter) with a device selected
Reselected(u, dev_id) ==
    [u EXCEPT !.selected = (@ \ {SelectedDevice(u)})
                           \cup (IF Holds(u.device_list, dev_id) THEN {dev_id} ELSE {})]

\* update_selected_device: None has no attribute 'selected' (line 88), no
\* attribute 'update_profile' (main.py, line 117)
Select ==
    \E dev_id \in DeviceIds :
        /\ usb.is_set
        /\ hist.selects < MaxSelects
        /\ usb' = IF SelectedDevice(usb) = "" THEN usb ELSE Reselected(usb, dev_id)
        /\ hist' = [hist EXCEPT !.selects = @ + 1]
        /\ last' = [NoOp EXCEPT !.op = "select", !.s = dev_id,
                                !.err = IF SelectedDevice(usb) = ""
                                           \/ SelectedDevice(Reselected(usb, dev_id)) = ""
                                           THEN AttributeErr ELSE NoErr]
        /\ UNCHANGED <<ctrl, link, conn, file, dev, thr, now, wire, py, pc, profiles>>

InitDaemon ==
    /\ ctrl = [settings |-> ConfigA, heating |-> FALSE, temp |-> 25]
    /\ link = Quiet
    /\ py = [interned |-> TRUE]
    /\ conn = FreshConn
    /\ file = FileMissing
    /\ last = NoOp
    /\ hist = DaemonHist
    /\ dev = DevIdle
    /\ thr = <<>>
    /\ now = 0
    /\ wire = <<>>
    /\ pc = "daemon"
    /\ usb \in {NewDaemon(s) : s \in SUBSET {PortNames[i] : i \in 1..Len(PortNames)}}
    /\ profiles = <<>>

NextDaemon ==
    \/ Plug
    \/ Unplug
    \/ Notify
    \/ Rescan
    \/ Skip
    \/ Select

SpecDaemon == InitDaemon /\ [][NextDaemon]_vars

\* the handler thread is alive and a 'usb_device' event is at the head of
\* the queue: the enabling condition of Rescan
CanRescan == usb.alive /\ usb.queue # <<>> /\ Head(usb.queue) = "usb_device"

\* the step is a rescan
Rescans == last'.op = "rescan" /\ hist'.handled = hist.handled + 1

\* the handler thread runs whenever an event waits in the queue: weak
\* fairness of Skip and of Rescan, the latter written out with its enabling
\* condition
SpecDaemonLive ==
    SpecDaemon /\ WF_vars(Skip) /\ ([]<>~CanRescan \/ []<><<Rescans>>_vars)
(***************************************************************************)
(* The profile list (SpecCatalog): Profiles holds Profile objects, which   *)
(* the request handlers add, update, delete and select, and whose target   *)
(* temperature the sampling and the status requests look up.  A profile is *)
(* [id, data, duration, selected]; its name plays no part here.  The       *)
(* points a request carries have distinct times.  The selected device, a   *)
(* Simulator, holds a reference to the Profile object it was given: at is  *)
(* the place of that object in the list (0: the object is in the list no   *)
(* more, or the reference is None), profile and duration are the object's  *)
(* data and duration as the device reads them.                             *)
(***************************************************************************)
\* the requests that change the profile list
MaxEdits == 2

\* the start/stop requests
MaxRuns == 2

ProfileIds == {"p1", "p2", "p3"}

\* the point lists a request can carry, in the order the request gives
DataChoices ==
    { << <<10, 100, 50>> >>,
      << <<20, 150, 50>>, <<10, 100, 50>> >>,
      << <<10, 100, 50>>, <<20, 200, 50>>, <<30, 150, 50>> >>,
      << <<30, 150, 50>>, <<5, 120, 50>> >> }

\* the seconds a lookup asks for
Seconds == {0, 3, 5, 7, 10, 15, 20, 24, 30, 31}

\* list.sort(key=lambda tup: tup[0]): x goes behind the points that are not
\* later than it
RECURSIVE Inserted(_, _, _)
Inserted(sorted, x, i) ==
    IF i > Len(sorted) THEN Append(sorted, x)
    ELSE IF sorted[i][1] > x[1]
       THEN SubSeq(sorted, 1, i - 1) \o <<x>> \o SubSeq(sorted, i, Len(sorted))
    ELSE Inserted(sorted, x, i + 1)

RECURSIVE SortedFrom(_, _, _)
SortedFrom(sorted, data_points, i) ==
    IF i > Len(data_points) THEN sorted
    ELSE SortedFrom(Inserted(sorted, data_points[i], 1), data_points, i + 1)

\* the setter of Profile.data
DataSet(data_points) == SortedFrom(<<>>, data_points, 1)

\* Profile.__init__
NewProfile(profile_id, data) ==
    [id |-> profile_id, data |-> DataSet(data), duration |-> Duration(DataSet(data)),
     selected |-> FALSE]

\* the first profile of the list with the id, 0 if there is none
RECURSIVE ProfileFrom(_, _, _)
ProfileFrom(list, profile_id, i) ==
    IF i > Len(list) THEN 0
    ELSE IF list[i].id = profile_id THEN i
    ELSE ProfileFrom(list, profile_id, i + 1)

\* the last one (delete_profile keeps the last index it finds)
RECURSIVE LastProfileFrom(_, _, _)
LastProfileFrom(list, profile_id, i) ==
    IF i < 1 THEN 0
    ELSE IF list[i].id = profile_id THEN i
    ELSE LastProfileFrom(list, profile_id, i - 1)

\* selected_profile (getter): the first selected profile, 0 for None
RECURSIVE SelectedFromList(_, _)
SelectedFromList(list, i) ==
    IF i > Len(list) THEN 0
    ELSE IF list[i].selected THEN i
    ELSE SelectedFromList(list, i + 1)

Unselected(list) ==
    IF SelectedFromList(list, 1) = 0 THEN list
    ELSE [list EXCEPT ![SelectedFromList(list, 1)].selected = FALSE]

\* selected_profile (setter)
SelectedProfileSet(list, profile_id) ==
    IF ProfileFrom(list, profile_id, 1) = 0 THEN Unselected(list)
    ELSE [Unselected(list) EXCEPT ![ProfileFrom(list, profile_id, 1)].selected = TRUE]

\* history: the edits and the start/stop requests so far; the profile and
\* the second of the last lookup
CatalogHist == [edits |-> 0, runs |-> 0, index |-> 0, second |-> 0]

Edited(op) ==
    /\ hist' = [hist EXCEPT !.edits = @ + 1]
    /\ last' = [NoOp EXCEPT !.op = op]
    /\ UNCHANGED <<ctrl, link, conn, file, thr, now, wire, py, pc, usb>>

\* Simulator(self._profiles.selected_profile) and Device.update_profile: the
\* device refers to the i-th Profile of the list, or to None
Referring(d, list, i) ==
    IF i = 0 THEN [d EXCEPT !.at = 0, !.profile = <<>>, !.duration = 0]
    ELSE [d EXCEPT !.at = i, !.profile = list[i].data, !.duration = list[i].duration]

\* the device's Profile after the i-th one of the list got new points
Aliased(d, list, i) ==
    IF i # 0 /\ i = d.at THEN [d EXCEPT !.profile = list[i].data] ELSE d

\* the device's reference after the i-th Profile left the list
Shifted(d, i) ==
    IF i = 0 \/ d.at < i THEN d
    ELSE IF d.at = i THEN [d EXCEPT !.at = 0]
    ELSE [d EXCEPT !.at = @ - 1]

\* Device.reset and Simulator.reset
Reset(d) ==
    [d EXCEPT !.temperature = room_temperature, !.start_time = 0, !.running = FALSE,
              !.run_out = FALSE, !.runtime = 0, !.points = <<>>]

\* new_profile: Profiles.add_profile
AddProfile ==
    \E profile_id \in ProfileIds, data \in DataChoices :
        /\ hist.edits < MaxEdits
        /\ profiles' = IF ProfileFrom(profiles, profile_id, 1) = 0
                          THEN Append(profiles, NewProfile(profile_id, data))
                       ELSE profiles
        /\ dev' = dev
        /\ Edited("add_profile")

\* update_profile: Profiles.update_profile
UpdateProfile ==
    \E profile_id \in ProfileIds, data \in DataChoices :
        /\ hist.edits < MaxEdits
        /\ profiles' = IF ProfileFrom(profiles, profile_id, 1) = 0 THEN profiles
                       ELSE [profiles EXCEPT ![ProfileFrom(profiles, profile_id, 1)].data =
                                                 DataSet(data)]
        /\ dev' = Aliased(dev, profiles', ProfileFrom(profiles, profile_id, 1))
        /\ Edited("update_profile")

\* delete_profile: Profiles.delete_profile
DeleteProfile ==
    \E profile_id \in ProfileIds :
        /\ hist.edits < MaxEdits
        /\ profiles' = IF LastProfileFrom(profiles, profile_id, Len(profiles)) = 0
                          THEN profiles
                       ELSE Without(profiles,
                                    LastProfileFrom(profiles, profile_id, Len(profiles)))
        /\ dev' = Shifted(dev, LastProfileFrom(profiles, profile_id, Len(profiles)))
        /\ Edited("delete_profile")

\* update_selected_profile: the setter of Profiles.selected_profile, then
\* update_profile, set_profile_on_device (nothing for a Simulator) and reset
\* of the device
SelectProfile ==
    \E profile_id \in ProfileIds :
        /\ hist.edits < MaxEdits
        /\ profiles' = SelectedProfileSet(profiles, profile_id)
        /\ dev' = Reset(Referring(dev, profiles', SelectedFromList(profiles', 1)))
        /\ Edited("select_profile")

\* update_start_stop: Device.start or Device.stop
StartStop ==
    /\ hist.runs < MaxRuns
    /\ dev' = IF dev.running THEN [dev EXCEPT !.running = FALSE, !.run_out = TRUE]
              ELSE [dev EXCEPT !.points = <<>>, !.running = TRUE, !.run_out = FALSE]
    /\ hist' = [hist EXCEPT !.runs = @ + 1]
    /\ last' = [NoOp EXCEPT !.op = "start_stop"]
    /\ UNCHANGED <<ctrl, link, conn, file, thr, now, wire, py, pc, usb, profiles>>

\* get_target_temperature(second) of a profile of the list
Lookup ==
    \E i \in 1..Len(profiles), second \in Seconds :
        /\ last' = [NoOp EXCEPT !.op = "lookup",
                                !.ret = I(TargetTemperatureOf(profiles[i].data,
                                                              profiles[i].duration, second))]
        /\ hist' = [hist EXCEPT !.index = i, !.second = second]
        /\ UNCHANGED <<ctrl, link, conn, file, dev, thr, now, wire, py, pc, usb, profiles>>

\* Profiles.__init__: the profiles of storage/profiles.json, the first one
\* selected
InitCatalog ==
    /\ ctrl = [settings |-> ConfigA, heating |-> FALSE, temp |-> 25]
    /\ link = Quiet
    /\ py = [interned |-> TRUE]
    /\ conn = FreshConn
    /\ file = FileMissing
    /\ last = NoOp
    /\ hist = CatalogHist
    /\ thr = <<>>
    /\ now = 0
    /\ wire = <<>>
    /\ pc = "catalog"
    /\ usb = <<>>
    /\ profiles \in { SelectedProfileSet(<<NewProfile("p1", a),
                                            NewProfile("p2", << <<10, 100, 50>> >>)>>, "p1") :
                          a \in DataChoices }
    /\ dev = Referring([DevIdle EXCEPT !.temperature = room_temperature]
                           @@ [at |-> 0, duration |-> 0], profiles, 1)

NextCatalog ==
    \/ AddProfile
    \/ UpdateProfile
    \/ DeleteProfile
    \/ SelectProfile
    \/ StartStop
    \/ Lookup

SpecCatalog == InitCatalog /\ [][NextCatalog]_vars
(***************************************************************************)
(* Device.start on a V3Pro step by step, against the requests of other     *)
(* threads (SpecStart): pc is where the thread inside start() stands       *)
(* ("idle": no start() is under way); the requests select a profile or a   *)
(* device (update_profile and set_profile_on_device, then reset for a      *)
(* profile) and stop the device.  Every operation of the connection is     *)
(* one step.                                                               *)
(***************************************************************************)
\* the requests that select a profile or a device
MaxRequests == 2

\* history of SpecStart: the settings the controller held at first, whether
\* reset() of a request is still to come, the requests so far, whether the
\* start command was acknowledged and no stop command was sent since
StartHist ==
    [captured |-> AllNone, reuses |-> 0, focus |-> "", original |-> AllNone, due |-> FALSE,
     reqs |-> 0, started |-> FALSE]

StartRest == UNCHANGED <<thr, now, wire, py, usb, profiles>>

\* Device.start, lines 97-100
Begin ==
    /\ pc = "idle"
    /\ ~dev.running
    /\ dev' = [dev EXCEPT !.points = <<>>, !.start_time = now, !.running = TRUE,
                          !.run_out = FALSE]
    /\ pc' = "begun"
    /\ last' = [NoOp EXCEPT !.op = "begin"]
    /\ UNCHANGED <<ctrl, link, conn, file, hist>>
    /\ StartRest

\* start_device, line 67
StartSave ==
    /\ pc = "begun"
    /\ SaveInitialEnds(SaveInitialControllerSettings(M, conn.initial, file))
    /\ UNCHANGED dev
    /\ StartRest

\* line 68
StartInit ==
    /\ pc = "saved"
    /\ \E m \in {ControllerInit(M, py.interned)} : Ends("controller_init", m, After(m, "inited"))
    /\ UNCHANGED <<file, hist, dev>>
    /\ StartRest

\* line 69
StartProfile ==
    /\ pc = "inited"
    /\ \E m \in {SetProfileOnDevice(M, dev.profile, dev.running \/ dev.run_out, py.interned)} :
           Ends("set_profile", m, After(m, "profiled"))
    /\ UNCHANGED <<file, hist, dev>>
    /\ StartRest

\* lines 70-72: the start command
StartCommand ==
    /\ pc = "profiled"
    /\ \E m \in {Start(M)} :
           /\ Ends("start", m, "idle")
           /\ hist' = [hist EXCEPT !.started = @ \/ m.heating]
    /\ UNCHANGED <<file, dev>>
    /\ StartRest

\* update_selected_profile, lines 158-160, or update_selected_device, lines
\* 116-118: the device gets the profile and writes it to the controller
RequestProfile ==
    \E d \in {ProfileStd, ProfileHot}, due \in BOOLEAN :
        /\ hist.reqs < MaxRequests
        /\ ~hist.due
        /\ \E m \in {SetProfileOnDevice(M, d, dev.running \/ dev.run_out, py.interned)} :
               /\ Ends("request_profile", m, pc)
               /\ hist' = [hist EXCEPT !.reqs = @ + 1, !.due = due /\ m.err = NoErr]
        /\ dev' = [dev EXCEPT !.profile = d]
        /\ UNCHANGED file
        /\ StartRest

\* update_selected_profile, line 161: Device.reset
RequestReset ==
    /\ hist.due
    /\ dev' = [dev EXCEPT !.temperature = 0, !.start_time = 0, !.running = FALSE,
                          !.run_out = FALSE, !.runtime = 0, !.points = <<>>]
    /\ hist' = [hist EXCEPT !.due = FALSE]
    /\ last' = [NoOp EXCEPT !.op = "reset"]
    /\ UNCHANGED <<ctrl, link, conn, file, pc>>
    /\ StartRest

\* update_start_stop while the device is running: Device.stop
RequestStop ==
    /\ dev.running
    /\ dev' = [dev EXCEPT !.running = FALSE, !.run_out = TRUE]
    /\ last' = [NoOp EXCEPT !.op = "stop"]
    /\ UNCHANGED <<ctrl, link, conn, file, hist, pc>>
    /\ StartRest

StartLinkFault ==
    /\ link = Quiet
    /\ link' \in Bursts({"marker", "short"})
    /\ UNCHANGED <<ctrl, conn, file, last, hist, dev, pc>>
    /\ StartRest

InitStart ==
    /\ ctrl \in [settings : {ConfigA, ConfigB}, heating : {FALSE}, temp : {25}]
    /\ link = Quiet
    /\ py \in [interned : BOOLEAN]
    /\ conn = FreshConn
    /\ file \in {FileMissing, FileEmpty, Record(TRUE, AllNone)}
    /\ last = NoOp
    /\ hist = [StartHist EXCEPT !.original = ctrl.settings]
    /\ dev \in {[DevIdle EXCEPT !.profile = d] : d \in {ProfileStd, ProfileShort}}
    /\ thr = <<>>
    /\ now = 0
    /\ wire = <<>>
    /\ pc = "idle"
    /\ usb = <<>>
    /\ profiles = <<>>

NextStart ==
    \/ StartLinkFault
    \/ Begin
    \/ StartSave
    \/ StartInit
    \/ StartProfile
    \/ StartCommand
    \/ RequestProfile
    \/ RequestReset
    \/ RequestStop

SpecStart == InitStart /\ [][NextStart]_vars

(***************************************************************************)
(* Properties of the settings record (SpecSession)                         *)
(***************************************************************************)
\* the exchanges of a log: what was written to the controller
IsExchange(e) == e.c # "record"

IsWrite(e, names) == e.c = "set" /\ e.s \in names

NotClean(f) == f.state = "record" /\ ~f.clean

\* a capture has been made and a later write-back has run to its end
RoundTripDone ==
    /\ last.op = "write_back"
    /\ last.err = NoErr
    /\ hist.captured # AllNone

\* C1: whenever save_initial_controller_settings captured the settings and
\* write_back_initial_controller_settings later completes, the recorded
\* snapshot equals the controller's values at capture time field by field,
\* and every one of the 19 settings holds on the controller the value it
\* held before the capture.
C1_RoundTrip ==
    RoundTripDone =>
        /\ \A s \in Settings : file.data[s] = hist.captured[s]
        /\ \A s \in Settings : ctrl.settings[s] = hist.captured[s]

\* C3: with a not-clean record, save_initial_controller_settings reuses the
\* recorded settings unchanged, reads no setting from the controller and
\* leaves the record not-clean; so a not-clean record keeps its snapshot
\* over any number of sessions until a write-back marks it clean.
C3_ReuseKeepsSnapshot ==
    [][ /\ (NotClean(file) /\ pc = "idle" /\ pc' = "saved") =>
            /\ file' = file
            /\ conn'.initial = file.data
            /\ \A i \in 1..Len(last'.log) : ~IsExchange(last'.log[i])
        /\ (NotClean(file) /\ NotClean(file')) => file'.data = file.data
        /\ (NotClean(file) /\ ~NotClean(file')) =>
            last'.op = "write_back" /\ last'.err = NoErr ]_vars

\* the third session in a row that reuses a snapshot the controller no
\* longer holds
C3_Witness ==
    /\ last.op = "save_initial"
    /\ last.err = NoErr
    /\ hist.reuses >= 2
    /\ NotClean(file)
    /\ file.data # ctrl.settings

\* the last save_initial_controller_settings captured, and returned
SaveCapturedNow ==
    /\ last.op = "save_initial"
    /\ last.err = NoErr
    /\ hist.reuses = 0

\* C4: from a clean, empty or corrupt record save_initial_controller_settings
\* captures the controller's current settings as the new snapshot, and the
\* record it writes is marked not-clean in every branch.
C4_CaptureCurrent ==
    /\ (last.op = "save_initial" /\ last.err = NoErr) => NotClean(file)
    /\ SaveCapturedNow =>
        /\ file.data = ctrl.settings
        /\ conn.initial = ctrl.settings

\* the record was written with the clean flag at position i of the log
MarkedCleanAt(log, i) == log[i] = RecordWritten(TRUE)

\* C5 as stated: in every execution of write_back_initial_controller_settings
\* the memory-slot write is the last exchange sent to the controller, after
\* the writes of all other settings; the record is marked clean only after
\* the memory-slot write; if a setter raises, the record is not marked clean.
C5_SlotWriteIsLastExchange ==
    last.op = "write_back" =>
        /\ last.err = NoErr =>
            \E i \in 1..Len(last.log) :
                /\ IsWrite(last.log[i], {"memory_slot"})
                /\ \A j \in (i + 1)..Len(last.log) : ~IsExchange(last.log[j])
        /\ \A i \in 1..Len(last.log) : MarkedCleanAt(last.log, i) =>
            \E j \in 1..(i - 1) : IsWrite(last.log[j], {"memory_slot"})
        /\ last.err # NoErr =>
            \A i \in 1..Len(last.log) : ~MarkedCleanAt(last.log, i)

\* C5, amended: no exchange for another setting follows a memory-slot write;
\* the memory-slot write is left out when the recorded slot is the cached
\* one; the record is marked clean last, after the memory-slot assignment
\* returned, and never when a setter raised.
C5_NothingAfterSlotWrite ==
    last.op = "write_back" =>
        /\ \A i \in 1..Len(last.log) : IsWrite(last.log[i], {"memory_slot"}) =>
            \A j \in (i + 1)..Len(last.log) :
                ~IsExchange(last.log[j]) \/ IsWrite(last.log[j], {"memory_slot"})
        /\ \A i \in 1..Len(last.log) : MarkedCleanAt(last.log, i) =>
            /\ i = Len(last.log)
            /\ last.err = NoErr
            /\ file = Record(TRUE, conn.initial)
            /\ conn.shadow["memory_slot"] = conn.initial["memory_slot"]
            /\ \/ i > 1 /\ last.log[i - 1] = Cmd("set", "memory_slot", conn.initial["memory_slot"])
               \/ \A j \in 1..Len(last.log) : ~IsWrite(last.log[j], {"memory_slot"})
        /\ last.err # NoErr =>
            \A i \in 1..Len(last.log) : ~MarkedCleanAt(last.log, i)
        /\ last.err = NoErr => MarkedCleanAt(last.log, Len(last.log))

\* a completed write-back that wrote other settings, then the memory slot,
\* then the record
C5_Witness ==
    /\ last.op = "write_back"
    /\ last.err = NoErr
    /\ Len(last.log) >= 3
    /\ IsWrite(last.log[Len(last.log) - 1], {"memory_slot"})
    /\ \E i \in 1..Len(last.log) : IsWrite(last.log[i], Settings \ {"memory_slot"})

(***************************************************************************)
(* Properties of the single operations (SpecOps)                           *)
(***************************************************************************)
LogicalOps == {"get", "set", "temperature", "start", "stop"}

\* the operation a ConnectionError has to name
NamesOperation(e, op, s) ==
    /\ e.type = "ConnectionError"
    /\ CASE op = "get" -> e.verb = "read" /\ e.subject = s
         [] op = "set" -> e.verb = "write" /\ e.subject = s
         [] op = "temperature" -> e.verb = "read" /\ e.subject = "temperature"
         [] op = "start" -> e.verb = "start"
         [] OTHER -> e.verb = "stop"

\* the exchange at position i gave the operation what it asked for
Succeeded(log, i) == log[i].st = "ok"

\* C6: every logical operation of the client (temperature read, start, stop,
\* each getter and setter) performs at most 5 exchanges; when all 5 fail it
\* raises a connection failure naming the operation; it stops retrying at
\* the first exchange that succeeds.
C6_RetryBudget ==
    last.op \in LogicalOps =>
        /\ Len(last.log) <= number_of_trials
        /\ (Len(last.log) = number_of_trials
             /\ \A i \in 1..Len(last.log) : ~Succeeded(last.log, i)) =>
                NamesOperation(last.err, last.op, last.s)
        /\ \A i \in 1..Len(last.log) :
             (Succeeded(last.log, i) /\ last.log[i].s = last.s) =>
                \A j \in (i + 1)..Len(last.log) : last.log[j].s # last.s

\* the value a setter sends for the value it is called with
Sent(s, v) ==
    CASE s \in {"memory_slot", "background_light"} -> Clamp(s, v)
      [] s \in FlagSettings -> NormFlag(v)
      [] OTHER -> v

\* the exchanges of the last operation that wrote its setting
WritesOf(log, s) == { i \in 1..Len(log) : IsWrite(log[i], {s}) }

\* C7: for every setter, if an exchange echoes the requested value the
\* shadow afterwards equals the set value; if every exchange of the budget
\* echoes a different value the setter raises a connection failure and the
\* shadow is left unset (None).
C7_ShadowFollowsEcho ==
    last.op = "set" =>
        /\ (\E i \in WritesOf(last.log, last.s) : Succeeded(last.log, i)) =>
            /\ conn.shadow[last.s] = Sent(last.s, last.v)
            /\ ctrl.settings[last.s] = Sent(last.s, last.v)
            /\ last.err = NoErr
        /\ (/\ Cardinality(WritesOf(last.log, last.s)) = number_of_trials
            /\ \A i \in WritesOf(last.log, last.s) : last.log[i].st = "mismatch") =>
            /\ last.err = ConnErr("write", last.s)
            /\ conn.shadow[last.s] = None

\* a setter that found a cached value, lost it over five differing echoes
\* and raised
C7_Witness ==
    /\ last.op = "set"
    /\ last.before # None
    /\ Cardinality(WritesOf(last.log, last.s)) = number_of_trials
    /\ \A i \in WritesOf(last.log, last.s) : last.log[i].st = "mismatch"
    /\ last.err = ConnErr("write", last.s)

\* C8: once the shadow holds a value for a setting (whatever it is, 0
\* included) the getter returns the shadow value and performs no exchange;
\* a round trip happens only when the shadow is unset.
C8_CachedGetterIsSilent ==
    last.op = "get" =>
        /\ last.before # None =>
            /\ last.log = <<>>
            /\ last.err = NoErr
            /\ last.ret = last.before
        /\ last.log # <<>> => last.before = None

\* the range a phase setter rejects, in the unit the controller has
OutOfRange(s, v, unit) ==
    CASE s \in TempSettings ->
            \/ unit = S("C") /\ (v.n < 0 \/ v.n > 254)
            \/ unit = S("F") /\ (v.n < 32 \/ v.n > 490)
      [] s \in TimeSettings -> v.n < 0 \/ v.n > 65534
      [] OTHER -> v.n < 0 \/ v.n > 100

RejectedCall ==
    /\ last.op = "set"
    /\ last.s \in PhaseSettings
    /\ OutOfRange(last.s, last.v, ctrl.settings["temp_unit"])

\* C9 as stated: a per-phase setter called with an out-of-range value sends
\* no write exchange for the setting, raises no error and is not retried.
C9_RejectedSilently ==
    RejectedCall =>
        /\ WritesOf(last.log, last.s) = {}
        /\ last.err = NoErr

\* C9, amended: it sends no write exchange for the setting; the only
\* exchanges are reads of the temperature unit a phase temperature setter
\* needs when the unit is not cached, and the only error is the one of such
\* a read: the connection failure after five failed exchanges, or the
\* IndexError of a response with fewer than two lines.
C9_RejectedWithoutWrite ==
    RejectedCall =>
        /\ \A i \in 1..Len(last.log) : last.log[i] \in
              { [Cmd("get", "temp_unit", None) EXCEPT !.st = o] : o \in FaultKinds \cup {"ok"} }
        /\ last.log # <<>> => last.s \in TempSettings
        /\ Len(last.log) <= number_of_trials
        /\ last.err # NoErr =>
            \/ /\ last.err = ConnErr("read", "temp_unit")
               /\ Len(last.log) = number_of_trials
               /\ \A i \in 1..Len(last.log) : ~Succeeded(last.log, i)
            \/ /\ last.err = IndexErr
               /\ last.log[Len(last.log)].st = "short"
        /\ (last.log # <<>> /\ last.err = NoErr) => Succeeded(last.log, Len(last.log))

\* an out-of-range phase temperature, rejected after the unit was read
C9_Witness ==
    /\ RejectedCall
    /\ last.s \in TempSettings
    /\ last.v = I(300)
    /\ last.err = NoErr
    /\ Len(last.log) = 1


ShortSeen == \E i \in 1..Len(last.log) : last.log[i].st = "short"

\* C24: an operation that met a response of fewer than two lines ends
\* without an error or with a ConnectionError, after at most
\* number_of_trials exchanges
C24_ShortResponse ==
    last.op \in {"get", "set", "start", "stop"} /\ ShortSeen =>
        /\ last.err.type \in {"none", "ConnectionError"}
        /\ Len(last.log) <= number_of_trials

\* C34: whenever the shadow cache holds a value for a setting, the
\* controller holds that value for the setting
C34_ShadowCoherent ==
    \A s \in Settings : conn.shadow[s] # None => conn.shadow[s] = ctrl.settings[s]
(***************************************************************************)
(* Properties of the device (SpecDevice)                                   *)
(***************************************************************************)
\* C2: on every RunningOut -> Idle transition of a hardware device the
\* hardware stop command is issued, all originally captured settings are
\* written back to the controller, and the local settings record is then
\* marked clean.
C2_FinishRestoresSettings ==
    (last.op = "stop_device" /\ last.err = NoErr) =>
        /\ \E i \in 1..Len(last.log) : last.log[i] = Cmd("doStop", "", None)
        /\ ~ctrl.heating
        /\ \A s \in Settings : ctrl.settings[s] = conn.initial[s]
        /\ file = Record(TRUE, conn.initial)


\* the settings controller_init and set_profile_on_device assign
InitNames == {ControllerInitValues[k][1] : k \in 1..Len(ControllerInitValues)}

PhaseNames == {ProfileAssignments(ProfileQuick)[k][1] : k \in 1..12}

RecordedAt(log, i) == log[i] = RecordWritten(FALSE)

IsStartCmd(e) == e.c = "doStart"

\* the controller holds every value of a run of assignments
HoldsAll(settings, seq) == \A k \in 1..Len(seq) : settings[seq[k][1]] = seq[k][2]

\* C26: start_device saves the settings record, then assigns the settings
\* of controller_init, then the phases of the profile, then sends the start
\* command; the start command is sent only after all these steps returned,
\* and no setting is written before the record has been written.
C26_StartDeviceOrder ==
    last.op = "start_device" =>
        /\ \A i \in 1..Len(last.log) : IsWrite(last.log[i], Settings) =>
               \E j \in 1..(i - 1) : RecordedAt(last.log, j)
        /\ \A i, j \in 1..Len(last.log) :
               IsWrite(last.log[i], InitNames) /\ IsWrite(last.log[j], PhaseNames) => i < j
        /\ \A j \in 1..Len(last.log) : IsStartCmd(last.log[j]) =>
               /\ \E i \in 1..(j - 1) : RecordedAt(last.log, i)
               /\ \A i \in (j + 1)..Len(last.log) : IsStartCmd(last.log[i])
               /\ Len(dev.profile) >= 4
               /\ HoldsAll(ctrl.settings, ControllerInitValues)
               /\ HoldsAll(ctrl.settings, ProfileAssignments(dev.profile))
               /\ last.err \in {NoErr, IndexErr, ConnErr("start", "controller")}

\* start_device ran to its end after a capture: the record was written, the
\* settings were assigned and the start command was acknowledged
C26_Witness ==
    /\ last.op = "start_device"
    /\ last.err = NoErr
    /\ ctrl.heating
    /\ \E i \in 1..Len(last.log) : IsWrite(last.log[i], InitNames)
    /\ \E i \in 1..Len(last.log) : IsWrite(last.log[i], PhaseNames)
    /\ \E i \in 1..Len(last.log) : last.log[i].c = "get"

\* start_device ended by an exception of an earlier step after the record
\* had been written: no start command was sent
C26_FailedStep ==
    /\ last.op = "start_device"
    /\ last.err # NoErr
    /\ \E i \in 1..Len(last.log) : RecordedAt(last.log, i)
    /\ \A i \in 1..Len(last.log) : ~IsStartCmd(last.log[i])

\* the thread t takes a step of its loop
Acts(t) == thr'[t] # thr[t]

\* C29: a temperature read that fails in all its trials during sampling
\* ends the loop that made it and leaves the device as it is; a loop that
\* has ended takes no further step, so whatever a loop does to the device
\* (temperature, runtime, measured points, flags, the transition to Idle,
\* the call of stop_device) is done by a loop that has not ended
C29_FailedReadEndsLoop ==
    [][/\ \A t \in 1..Len(thr) :
              Acts(t) /\ thr[t].pc = "sample" /\ last'.err # NoErr =>
                  /\ thr'[t].pc = "dead"
                  /\ last'.err = ConnErr("read", "temperature")
                  /\ Len(last'.log) = number_of_trials
                  /\ dev' = dev
       /\ \A t \in 1..Len(thr) : thr[t].pc = "dead" => ~Acts(t)
       /\ dev' # dev \/ (last'.op = "stop_device" /\ last' # last) =>
              \/ last'.op \in {"start_device", "stop"} /\ \A t \in 1..Len(thr) : ~Acts(t)
              \/ \E t \in 1..Len(thr) : Acts(t) /\ thr[t].pc # "dead"]_vars

\* the only loop of a device ended while the device was running; the device
\* was stopped and is still RunningOut after more than the follow-up time
C29_Witness ==
    /\ thr # <<>>
    /\ \A t \in 1..Len(thr) : thr[t].pc = "dead" /\ now > thr[t].wake + follow_up_time
    /\ dev.run_out
    /\ ~dev.running
(***************************************************************************)
(* Properties of the wire (SpecWire)                                       *)
(***************************************************************************)
\* the threads between acquire() and release() of _write_command
Inside(w) == { t \in Threads : w.th[t].pc \in {"write", "read", "release"} }

\* C10: the write of a command and the reading of its response up to the
\* terminating blank line happen with the lock held, so the exchanges of
\* two threads never interleave: no thread writes or reads between another
\* thread's write and its terminating blank line.
C10_ExchangesDoNotInterleave ==
    /\ ~wire.mixed
    /\ \A t \in Inside(wire) : wire.lock = t
    /\ Cardinality(Inside(wire)) <= 1
    /\ wire.open # "" => wire.lock = wire.open
    /\ \A i \in 1..Len(wire.out) : wire.out[i].of = wire.open

\* the caller waits for the lock while the sampler is reading its response
C10_Witness ==
    /\ wire.th["sampler"].pc = "read"
    /\ wire.th["sampler"].lines = 1
    /\ wire.th["caller"].pc = "idle"
    /\ wire.th["caller"].result = "raised"
    /\ wire.lock = "sampler"
    /\ Len(wire.out) >= 1


\* C33: the lock is held only by a thread that is inside _write_command:
\* however an exchange ends, the lock is free afterwards
C33_LockReleased == \A t \in Threads : wire.lock = t => t \in Inside(wire)
(***************************************************************************)
(* The connection probe                                                    *)
(***************************************************************************)
Acknowledged == \E i \in 1..Len(last.log) : last.log[i].c = "doStop" /\ last.log[i].st = "ok"

\* C11: the probe answers with a value, compatible exactly when an exchange
\* of stop was acknowledged: it never raises, on a port that does not
\* answer it returns False
C11_ProbeReportsValue ==
    last.op = "probe" =>
        /\ last.err = NoErr
        /\ last.ret = (IF Acknowledged THEN I(1) ELSE I(0))

(***************************************************************************)
(* The sampling loop                                                       *)
(***************************************************************************)
Running == dev.running /\ ~dev.run_out

RunningOut == ~dev.running /\ dev.run_out

Idle == ~dev.running /\ ~dev.run_out

LastRuntime == IF dev.points = <<>> THEN -1 ELSE dev.points[Len(dev.points)][1]

\* C12: once no further command can come, a Simulator started while idle
\* leaves Running for RunningOut and RunningOut for Idle; when such a run
\* has ended by itself and is Idle again, its last measured point has a
\* runtime of at least the profile's duration
C12_RunToCompletion ==
    /\ (dev.running /\ hist.from_idle /\ ~CanCommand) ~> RunningOut
    /\ (RunningOut /\ hist.from_idle /\ ~CanCommand) ~> Idle
    /\ [](Idle /\ hist.idled /\ hist.how = "finish" /\ hist.from_idle
              => LastRuntime >= Duration(dev.profile))


EndsIteration == \E t \in 1..Len(thr) : thr[t].pc # "sample" /\ thr'[t].pc = "sample"

\* C13: a sampling iteration never ends with the device still running at a
\* runtime of the profile's duration or more, and a running device becomes
\* RunningOut without a stop() only at a runtime of at least the duration
C13_AutomaticCompletion ==
    [][/\ EndsIteration /\ dev'.runtime >= Duration(dev'.profile) => ~dev'.running
       /\ Running /\ RunningOut' /\ last'.op # "stop"
              => dev.runtime >= Duration(dev.profile)]_vars

\* C14: the device leaves RunningOut for Idle only when it has been in
\* RunningOut for the configured follow_up_time, and a run enters RunningOut
\* with the full countdown
C14_FollowUpWindow ==
    /\ last.op = "idle" => now - hist.out_since >= follow_up_time
    /\ last.op \in {"stop", "finish"}
           => \A t \in 1..Len(thr) : thr[t].follow_up_time = follow_up_time

\* C15: a run that has reached Idle through RunningOut has had exactly one
\* stop_device(), and no run has more than one
C15_OneStopDevicePerRun ==
    /\ hist.stops <= 1
    /\ Idle /\ hist.idled /\ (\A t \in 1..Len(thr) : thr[t].pc # "155") => hist.stops = 1

\* C16: after reset() and until the next start() the runtime is 0, and while
\* the device is running the runtime of a sample is not less than that of
\* the sample before
C16_RuntimeMonotone ==
    /\ hist.reset => dev.runtime = 0
    /\ \A i \in 1..(Len(dev.points) - 1) :
           dev.running => dev.points[i][1] <= dev.points[i + 1][1]

\* C25: stop() leaves the device RunningOut and calls no stop_device();
\* stop_device() is called only by a sampling thread that has just made the
\* device Idle, and after a stop() not before the follow-up time is over
C25_StopDefersStopDevice ==
    [][/\ last'.op = "stop" => RunningOut' /\ hist'.stops = hist.stops
       /\ hist'.stops > hist.stops
              => last'.op = "stop_device" /\ \E t \in 1..Len(thr) : thr[t].pc = "155"
       /\ last'.op = "stop_device" /\ hist'.how = "stop"
              => now' - hist'.out_since >= follow_up_time]_vars

\* C27: reset() in any state leaves the device Idle with no measured points
\* and runtime 0 and leaves the profile as it is; until the next start() the
\* device stays Idle without measured points, whatever the sampling thread
\* was doing when reset() ran
C27_ResetLeavesIdle ==
    [][/\ last'.op = "reset" /\ hist'.cmds > hist.cmds
              => Idle' /\ dev'.points = <<>> /\ dev'.runtime = 0 /\ dev'.profile = dev.profile
       /\ hist'.reset => Idle' /\ dev'.points = <<>>]_vars

\* the sampling loops of the device that are running
Loops == {t \in 1..Len(thr) : thr[t].pc # "dead"}

\* C28: from its construction on a device has exactly one sampling loop
\* running: a V3Pro has one before its first start(), and never two
C28_OneSamplingThread == Cardinality(Loops) = 1

\* C36: a device that start() made Running stays Running until stop(),
\* reset() or the end of an iteration whose sample belongs to the new run
\* and has a runtime of at least the profile's duration; the sampling
\* thread makes it neither Idle nor RunningOut otherwise
C36_StartNotUndone ==
    [][dev.running /\ ~dev'.running =>
           \/ last'.op \in {"stop", "reset"}
           \/ /\ last'.op = "finish"
              /\ dev.points # <<>>
              /\ LastRuntime = dev.runtime
              /\ dev.runtime >= Duration(dev.profile)]_vars

(***************************************************************************)
(* The hot-plug daemon and the device list                                 *)
(***************************************************************************)
SetOf(seq) == {seq[i] : i \in 1..Len(seq)}

Compatible == {p \in usb.plugged : ~Locked(p) /\ LineOf(p) = Quiet}

\* C17: a rescan reports as removed the known ports that are not
\* enumerated, as added the enumerated ports that were not known, and
\* leaves the enumerated ports as the known ones
C17_Reconciliation ==
    last.op = "rescan" =>
        /\ SetOf(hist.removed) = SetOf(hist.K) \ SetOf(hist.N)
        /\ SetOf(hist.added) = SetOf(hist.N) \ SetOf(hist.K)
        /\ SetOf(usb.active) = SetOf(hist.N)

\* C18: the ready callback is called at most once, and it has been called
\* once the handler is through with the first event
C18_ReadyOnce ==
    /\ hist.readies <= 1
    /\ hist.handled >= 1 => hist.readies = 1

\* C19: no exception leaves the handling of the added ports and the handler
\* stays alive; every added port that can be opened is probed, and only
\* ports with a V3 Pro get a device
C19_DiscoveryNoise ==
    last.op = "rescan" =>
        /\ ~hist.raised
        /\ usb.alive
        /\ SetOf(hist.probed) = {p \in SetOf(hist.added) : ~Locked(p)}
        /\ \A p \in SetOf(usb.hw) : ~Locked(p) /\ LineOf(p) = Quiet

\* C20: once the handler has processed every event, the device list is the
\* simulator followed by one device for each connected port with a V3 Pro
C20_RegistryTracking ==
    usb.alive /\ usb.initialized /\ usb.queue = <<>> =>
        /\ usb.device_list[1] = "simulator"
        /\ SetOf(Tail(usb.device_list)) = Compatible
        /\ Len(usb.device_list) = 1 + Cardinality(Compatible)

\* C21: from construction on exactly one device of the device list is
\* selected, the simulator at first
C21_OneSelected ==
    /\ Cardinality(usb.selected \cap SetOf(usb.device_list)) = 1
    /\ hist.selects = 0 => usb.selected = {"simulator"}

\* the handler has taken an event off the queue
Handles == hist'.handled > hist.handled

\* C30: a rescan invokes on_removed before on_added, each at most once and
\* never with an empty list, with the lists it computed; the handler takes
\* one event at a time from the head of the queue, to which events are
\* added at the end; an event that is not 'usb_device' leads to no
\* enumeration and to no callback
C30_CallbackOrder ==
    [][/\ Handles =>
              /\ hist'.handled = hist.handled + 1
              /\ usb.queue # <<>>
              /\ usb'.queue = Tail(usb.queue)
              /\ last'.op = IF Head(usb.queue) = "usb_device" THEN "rescan" ELSE "skip"
       /\ ~Handles => usb'.queue = usb.queue \/ \E e \in {"usb_device", "usb_interface"} :
                                                    usb'.queue = Append(usb.queue, e)
       /\ Handles /\ last'.op = "rescan" =>
              /\ Len(hist'.calls) <= 2
              /\ \A i \in 1..Len(hist'.calls) : hist'.calls[i][2] # <<>>
              /\ \A i, j \in 1..Len(hist'.calls) :
                     i < j => hist'.calls[i][1] = "on_removed" /\ hist'.calls[j][1] = "on_added"
              /\ \A i \in 1..Len(hist'.calls) :
                     hist'.calls[i][2] = IF hist'.calls[i][1] = "on_removed" THEN hist'.removed
                                         ELSE hist'.added
       /\ Handles /\ last'.op = "skip" =>
              /\ hist'.calls = <<>>
              /\ hist'.readies = hist.readies
              /\ hist'.N = hist.N
              /\ usb'.active = usb.active
              /\ usb'.hw = usb.hw
              /\ usb'.device_list = usb.device_list]_vars

\* a rescan has invoked on_removed and then on_added while another event
\* waits in the queue
C30_Witness ==
    /\ last.op = "rescan"
    /\ Len(hist.calls) = 2
    /\ usb.queue # <<>>

\* an event of another kind has been handled behind a rescan
C30_Skipped ==
    /\ last.op = "skip"
    /\ hist.handled >= 2
    /\ usb.queue # <<>>

\* the devices of the list that are selected
SelectedNow == usb.selected \cap SetOf(usb.device_list)

\* C31: a select of an id of the device list leaves exactly that device
\* selected, a select of another id leaves none selected, and every select
\* request completes without an error
C31_SelectCompletes ==
    last.op = "select" =>
        /\ last.err = NoErr
        /\ SelectedNow = IF last.s \in SetOf(usb.device_list) THEN {last.s} ELSE {}

\* the reports of a port alternate, on_added first
Alternating(seq) ==
    \A i \in 1..Len(seq) : seq[i] = IF i % 2 = 1 THEN "on_added" ELSE "on_removed"

\* C39: per port the reports alternate over every sequence of rescans: a
\* port is not given to on_added twice without on_removed in between, and
\* it is given to on_removed only if its latest report was on_added
C39_ReportsAlternate ==
    \A p \in DOMAIN hist.reports : Alternating(hist.reports[p])

\* a port has been reported added, removed and added again
C39_Witness ==
    \E p \in DOMAIN hist.reports : Len(hist.reports[p]) >= 3

\* C40: the construction of the device list ends: whatever serial ports are
\* connected at first, the ready callback is invoked at some time, the
\* initialization event is set and DeviceList.__init__ returns from its wait
C40_ConstructionEnds == <>usb.is_set

(***************************************************************************)
(* The profile list                                                        *)
(***************************************************************************)
Looked == profiles[hist.index]

Between(x, a, b) == (a <= x /\ x <= b) \/ (b <= x /\ x <= a)

\* C22: a lookup beyond the duration yields the last point's temperature,
\* at a stored time the temperature stored with it, before the first point
\* the value on the line from (0, 0) to the first point, and elsewhere a
\* value between the temperatures of the two points around it
C22_ProfileLookup ==
    last.op = "lookup" =>
        /\ hist.second > Looked.duration
               => last.ret = I(100 * Looked.data[Len(Looked.data)][2])
        /\ \A i \in 1..Len(Looked.data) :
               Looked.data[i][1] = hist.second => last.ret = I(100 * Looked.data[i][2])
        /\ hist.second < Looked.data[1][1]
               => last.ret = I(RoundDiv(100 * Looked.data[1][2] * hist.second,
                                        Looked.data[1][1]))
        /\ \A i \in 1..(Len(Looked.data) - 1) :
               Looked.data[i][1] < hist.second /\ hist.second < Looked.data[i + 1][1]
                   => Between(last.ret.n, 100 * Looked.data[i][2], 100 * Looked.data[i + 1][2])

\* C23: the points of every profile of the list are in ascending order of
\* time, and its duration is the largest time of its points
C23_SortedWithDuration ==
    \A k \in 1..Len(profiles) :
        /\ \A i \in 1..(Len(profiles[k].data) - 1) :
               profiles[k].data[i][1] <= profiles[k].data[i + 1][1]
        /\ profiles[k].duration = Duration(profiles[k].data)

Driving == dev.running \/ dev.run_out

\* C32: while the device is Running or RunningOut, the points and the
\* duration of the profile it drives stay as they are, whatever requests
\* update, delete or select a profile
C32_DrivenProfileFixed ==
    [][Driving /\ Driving' => dev'.profile = dev.profile /\ dev'.duration = dev.duration]_vars
(***************************************************************************)
(* Properties of start() against the requests (SpecStart)                  *)
(***************************************************************************)
\* the step wrote a phase setting to the controller
WritesPhase ==
    /\ last' # last
    /\ \E i \in 1..Len(last'.log) : IsWrite(last'.log[i], PhaseNames)

\* C35: no phase setting is written to the controller before the settings
\* record holds a snapshot, so the snapshot a capture records holds no value
\* that this software wrote: the recorded preheat temperature is the one
\* the controller held at first
C35_CaptureBeforeWrites ==
    [][/\ WritesPhase => NotClean(file)
       /\ NotClean(file') => file'.data["preheat_temp"] = hist.original["preheat_temp"]]_vars


\* start() returns or raises in this step
StartEnds == pc # "idle" /\ pc' = "idle"

\* C37: when start() ends, the device is Running only if the start command
\* was acknowledged: a start_device() that fails at the settings record, at
\* a setter, at the profile or at the start command leaves running false
C37_RunningOnlyAcknowledged ==
    [][StartEnds /\ dev'.running =>
           last'.op = "start" /\ last'.err = NoErr /\ ctrl'.heating]_vars

\* C38: the controller is not left heating behind an Idle device: while no
\* start() is under way, a device that is Idle after an acknowledged start
\* command has had a stop command sent since
C38_NoHeatingBehindIdle ==
    pc = "idle" /\ Idle => ~hist.started /\ ~ctrl.heating
====
